---------------------------- MODULE Spec2Model ----------------------------
(***************************************************************************)
(* accountabot: a Discord accountability bot, in two variants.             *)
(*   single  = src/main.go          (one study channel, one record/user)   *)
(*   multi   = src/unnamed/part_000 (tracked channels, tickets, RWMutex)   *)
(* Time is counted in minutes; a time.Time is a wall instant plus the flag *)
(* "carries a monotonic clock reading".                                    *)
(***************************************************************************)
EXTENDS Integers, Sequences, FiniteSets, TLC

VARIABLES
    variant,      \* which program runs: "single" or "multi"
    config,       \* the global config
    database,     \* the global database
    file,         \* the file at config.DatabasePath
    clock,        \* the wall clock, in minutes
    ret,          \* what the last operation call returned
    nOps,         \* number of operation calls made so far
    taken,        \* per record key: the timestamps recordCheckIn took, in call order
    created,      \* per record key: the number of createTicket calls
    writeFails,   \* number of failed os.WriteFile calls so far
    nextTick,     \* when the reminder ticker delivers next
    ticks,        \* number of ticks the reminder routine has handled
    tickAt,       \* the clock at the last handled tick (-1: none yet)
    sent,         \* per record key: the reminders the last handled tick sent
    unreminded,   \* per record key: consecutive ticks that found it overdue and
                  \* sent it no reminder
    shutdown,     \* main after the exit signal: where its saveDatabase stands,
                  \* and the data it has marshalled
    mutex,        \* database.mutex: the goroutine holding it exclusively ("" for
                  \* none) and the goroutines holding it shared
    running,      \* per goroutine: the call it is inside, and where
    heap          \* single variant: the backing arrays of the CheckIns slices
                  \* and the slice header database.UserActivities holds

trackerVars ==
    <<variant, config, database, file, clock, ret, nOps, taken, created, writeFails>>

pollVars == <<nextTick, ticks, tickAt, sent, unreminded>>

concVars == <<mutex, running, heap>>

vars == <<trackerVars, pollVars, shutdown, concVars>>

-----------------------------------------------------------------------------
(* Bounds of the model *)

MaxOpsS == 32        \* operation calls explored in the single variant
MaxOther == 1        \* of which calls for the second user of the single variant
MaxOpsM == 3         \* operation calls explored in the multi variant
MaxClock == 1        \* last clock value of the tracker specification
MaxWriteFails == 1   \* failed file writes explored
MaxTicksR == 3       \* ticks of the reminder routine explored next to check-ins
MaxOpsR == 2         \* check-ins explored next to the reminder routine
MaxTicksD == 25      \* ticks of the reminder routine explored over a day
MaxOpsD == 1         \* check-ins explored over a day
MaxOpsX == 3         \* operation calls explored next to the exit
MaxOpsL == 2         \* operation calls explored around a restart
MaxOpsK == 2         \* mutating calls explored among concurrent goroutines
MaxOpsG == 2         \* message events explored
MaxOpsC == 8         \* check-ins explored with overlapping calls
MaxOpsB == 4         \* ticket operations explored before /progress draws its bars
MaxOpsP == 8         \* operations explored before and with /stats and /progress
MaxCount == 4        \* the largest count getPercentage is applied to on its own
MaxOpsT == 3         \* message events and /track commands explored together
MaxTicksQ == 2       \* ticks of the reminder routine explored as a goroutine
MaxOpsQ == 1         \* mutating calls explored next to the poller goroutine
MaxOpsN == 4         \* messages and /track commands explored for the labels
MaxOpsI == 2         \* operation calls explored around a restart on an edited file

(* Program constants *)

Precision == 53      \* float64: the bits of the significand
barLength == 10      \* createProgressBar: const barLength = 10
HistoryCap == 30     \* main.go: "Keep only the last 30 check-ins"
ZeroWall == -1       \* the wall instant of the zero time.Time (before every clock value)

-----------------------------------------------------------------------------
(* Input sets *)

Users == {"u1", "u2"}
Channels == {"c1", "c2"}
Usernames == {"kevin.you"}
ProjectNames == {"P1"}
Titles == {"T"}
Descriptions == {"D"}
WriteOutcomes == {"ok", "untouched", "truncated"}
TicketIDs == {"1", "2"}

\* the goroutines: two running event handlers, the reminder routine, main
Goroutines == {"h1", "h2", "poller", "main"}

\* a goroutine inside no call
NoCall == [pc |-> "idle", call |-> "", user |-> "", channel |-> "", id |-> "", local |-> ""]

-----------------------------------------------------------------------------
(* time.Time *)

ZeroTime == [wall |-> ZeroWall, mono |-> FALSE]

\* time.Now(): the wall clock with a monotonic reading
Now == [wall |-> clock, mono |-> TRUE]

-----------------------------------------------------------------------------
(* strconv / fmt: decimal formatting, as fmt.Sprintf("%d", n) *)

Digit(d) ==
    CASE d = 0 -> "0" [] d = 1 -> "1" [] d = 2 -> "2" [] d = 3 -> "3"
      [] d = 4 -> "4" [] d = 5 -> "5" [] d = 6 -> "6" [] d = 7 -> "7"
      [] d = 8 -> "8" [] d = 9 -> "9"

RECURSIVE Itoa(_)
Itoa(n) == IF n < 10 THEN Digit(n) ELSE Itoa(n \div 10) \o Digit(n % 10)

-----------------------------------------------------------------------------
(* Go maps and encoding/json values.                                       *)
(* A map is a function on its keys; the nil map is NilMap.  A JSON object  *)
(* is a function on its member names; JSON null is JNull.                  *)

NilMap == [nil |-> TRUE]
JNull == [null |-> TRUE]

\* a JSON value of a kind the Go target cannot take (a string where an array
\* is expected): the decoder skips it, goes on, and reports the error at the end
JMistyped == [mistyped |-> TRUE]
EmptyMap == [k \in {} |-> TRUE]

Keys(m) == IF m = NilMap THEN {} ELSE DOMAIN m
Has(m, k) == k \in Keys(m)

\* m[k] = v on a non-nil map
Put(m, k, v) == [x \in DOMAIN m \cup {k} |-> IF x = k THEN v ELSE m[x]]

\* a member of a JSON object, or the Go zero value when it is absent
Member(obj, name, zero) == IF name \in DOMAIN obj THEN obj[name] ELSE zero

\* time.Time.MarshalJSON: RFC 3339 text of the wall instant; the monotonic
\* reading is not written
MarshalTime(t) == [rfc3339 |-> t.wall]

\* time.Time.UnmarshalJSON: the instant, with no monotonic reading
UnmarshalTime(j) == [wall |-> j.rfc3339, mono |-> FALSE]

\* []time.Time <-> a JSON array
JArr(s) == [arr |-> s]
MarshalTimes(s) == JArr([i \in 1..Len(s) |-> MarshalTime(s[i])])
UnmarshalTimes(j) ==
    IF j = JNull \/ j = JMistyped THEN <<>>
    ELSE [i \in 1..Len(j.arr) |-> UnmarshalTime(j.arr[i])]

-----------------------------------------------------------------------------
(* os.WriteFile(config.DatabasePath, data, 0644).  The write succeeds, or  *)
(* fails before the file is opened (content untouched), or fails after the *)
(* file was truncated (content no longer parses).                          *)

FileOf(data) == [state |-> "json", doc |-> data]
NoFile == [state |-> "absent"]
BrokenFile == [state |-> "corrupt"]

WriteFile(data, w) ==
    /\ w # "ok" => writeFails < MaxWriteFails
    /\ file' = CASE w = "ok" -> FileOf(data)
                 [] w = "untouched" -> file
                 [] w = "truncated" -> BrokenFile
    /\ writeFails' = IF w = "ok" THEN writeFails ELSE writeFails + 1

Returned(op, user, channel, id, ok, w) ==
    [op |-> op, user |-> user, channel |-> channel, id |-> id, ok |-> ok, write |-> w]

-----------------------------------------------------------------------------
(* The single variant: src/main.go *)

S_UserActivity(userID, username) ==
    [UserID |-> userID, Username |-> username,
     LastCheckIn |-> ZeroTime, CheckIns |-> <<>>]

S_MarshalActivity(a) ==
    [userID |-> a.UserID, username |-> a.Username,
     lastCheckIn |-> MarshalTime(a.LastCheckIn),
     checkIns |-> MarshalTimes(a.CheckIns)]

S_UnmarshalActivity(j) ==
    [UserID |-> Member(j, "userID", ""),
     Username |-> Member(j, "username", ""),
     LastCheckIn |-> UnmarshalTime(Member(j, "lastCheckIn", MarshalTime(ZeroTime))),
     CheckIns |-> UnmarshalTimes(Member(j, "checkIns", JNull))]

\* json.MarshalIndent(database, "", "  ")
S_Marshal(db) ==
    [userActivities |->
        IF db.UserActivities = NilMap THEN JNull
        ELSE [u \in DOMAIN db.UserActivities |-> S_MarshalActivity(db.UserActivities[u])]]

\* json.Unmarshal(data, &database): decodes into the existing value, so a
\* non-nil map keeps the keys the document does not name
S_Unmarshal(db, doc) ==
    IF "userActivities" \notin DOMAIN doc THEN db
    ELSE IF doc.userActivities = JNull THEN [db EXCEPT !.UserActivities = NilMap]
    ELSE LET obj == doc.userActivities
             old == db.UserActivities
         IN [db EXCEPT !.UserActivities =
                [u \in Keys(old) \cup DOMAIN obj |->
                    IF u \in DOMAIN obj THEN S_UnmarshalActivity(obj[u]) ELSE old[u]]]

\* does json.Unmarshal return an error for the document?
S_UnmarshalError(doc) ==
    /\ "userActivities" \in DOMAIN doc /\ doc.userActivities # JNull
    /\ \E u \in DOMAIN doc.userActivities :
          Member(doc.userActivities[u], "checkIns", JNull) = JMistyped

\* database.UserActivities = make(map[string]UserActivity)
S_EmptyDatabase == [UserActivities |-> EmptyMap]

\* loadDatabase(): the database after it, given the file and the database before
S_loadDatabase(f, db) ==
    IF f.state = "json" THEN S_Unmarshal(db, f.doc) ELSE db

\* recordCheckIn with the truncation keeping the oldest entries (CheckIns[:30])
S_checkedIn_keepOldest(db, userID, username, now) ==
    LET exists == Has(db.UserActivities, userID)
        activity == IF exists THEN db.UserActivities[userID]
                    ELSE S_UserActivity(userID, username)
        named == [activity EXCEPT !.Username = username]
        appended == [named EXCEPT !.LastCheckIn = now, !.CheckIns = Append(@, now)]
        n == Len(appended.CheckIns)
    IN IF n > HistoryCap
       THEN [appended EXCEPT !.CheckIns = SubSeq(@, 1, HistoryCap)]
       ELSE appended

\* recordCheckIn, lines 139-160: the local copy `activity` after the append
\* and the truncation
S_checkedIn(db, userID, username, now) ==
    LET exists == Has(db.UserActivities, userID)
        activity == IF exists THEN db.UserActivities[userID]
                    ELSE S_UserActivity(userID, username)
        named == [activity EXCEPT !.Username = username]
        appended == [named EXCEPT !.LastCheckIn = now, !.CheckIns = Append(@, now)]
        n == Len(appended.CheckIns)
    IN IF n > HistoryCap
       THEN [appended EXCEPT !.CheckIns = SubSeq(@, n - HistoryCap + 1, n)]
       ELSE appended

\* recordCheckIn, line 163: database.UserActivities[userID] = activity
S_store(db, userID, activity) ==
    [db EXCEPT !.UserActivities = Put(@, userID, activity)]

\* recordCheckIn(userID, username), called on its own (no other call overlaps)
S_recordCheckIn(userID, username, w) ==
    /\ variant = "single"
    /\ database' = S_store(database, userID, S_checkedIn(database, userID, username, Now))
    /\ WriteFile(S_Marshal(database'), w)
    /\ ret' = Returned("recordCheckIn", userID, "", "", TRUE, w)
    /\ nOps' = nOps + 1
    /\ taken' = [taken EXCEPT ![userID] = Append(@, clock)]
    /\ UNCHANGED <<variant, config, clock, created, pollVars, shutdown>>

-----------------------------------------------------------------------------
(* Slices.  Where calls overlap, a []time.Time is followed as a header     *)
(* (backing array, length) into heap.arrays; the capacity is the length of *)
(* the array.  Array 0 is no array: the nil or empty slice.                *)

NilSlice == [array |-> 0, len |-> 0]

Cap(h, sl) == IF sl.array = 0 THEN 0 ELSE Len(h.arrays[sl.array])

\* the elements the header shows
View(h, sl) == IF sl.array = 0 THEN <<>> ELSE SubSeq(h.arrays[sl.array], 1, sl.len)

\* the capacity append gives a grown slice: one from none, doubled after
growslice(oldCap) == IF oldCap = 0 THEN 1 ELSE 2 * oldCap

\* append(sl, x): the heap and the header after it.  With room in the array
\* the element is written in place, where every header on the array with
\* that length sees it; without, the elements move to a new array.
append(h, sl, x) ==
    IF sl.len < Cap(h, sl)
    THEN [heap |-> [h EXCEPT !.arrays[sl.array][sl.len + 1] = x],
          slice |-> [sl EXCEPT !.len = @ + 1]]
    ELSE LET newCap == growslice(Cap(h, sl))
             grown == [i \in 1..newCap |->
                         IF i <= sl.len THEN h.arrays[sl.array][i]
                         ELSE IF i = sl.len + 1 THEN x ELSE ZeroTime]
         IN [heap |-> [h EXCEPT !.arrays = Append(@, grown)],
             slice |-> [array |-> Len(h.arrays) + 1, len |-> sl.len + 1]]

-----------------------------------------------------------------------------
(* The multi variant: src/unnamed/part_000 *)

M_Ticket(ticketID, title, description, now, projectName) ==
    [ID |-> ticketID, Title |-> title, Description |-> description,
     Status |-> "open", CreatedAt |-> now, CompletedAt |-> ZeroTime,
     ProjectName |-> projectName]

M_MarshalTicket(t) ==
    [id |-> t.ID, title |-> t.Title, description |-> t.Description,
     status |-> t.Status, createdAt |-> MarshalTime(t.CreatedAt),
     completedAt |-> MarshalTime(t.CompletedAt), projectName |-> t.ProjectName]

\* the ticket decoded with the completion time under a misspelt member name
M_UnmarshalTicket_noCompleted(j) ==
    [ID |-> Member(j, "id", ""),
     Title |-> Member(j, "title", ""),
     Description |-> Member(j, "description", ""),
     Status |-> Member(j, "status", ""),
     CreatedAt |-> UnmarshalTime(Member(j, "createdAt", MarshalTime(ZeroTime))),
     CompletedAt |-> UnmarshalTime(Member(j, "completed_at", MarshalTime(ZeroTime))),
     ProjectName |-> Member(j, "projectName", "")]

M_UnmarshalTicket(j) ==
    [ID |-> Member(j, "id", ""),
     Title |-> Member(j, "title", ""),
     Description |-> Member(j, "description", ""),
     Status |-> Member(j, "status", ""),
     CreatedAt |-> UnmarshalTime(Member(j, "createdAt", MarshalTime(ZeroTime))),
     CompletedAt |-> UnmarshalTime(Member(j, "completedAt", MarshalTime(ZeroTime))),
     ProjectName |-> Member(j, "projectName", "")]

M_MarshalActivity(a) ==
    [lastCheckIn |-> MarshalTime(a.LastCheckIn),
     checkIns |-> MarshalTimes(a.CheckIns),
     tickets |-> IF a.Tickets = NilMap THEN JNull
                 ELSE [id \in DOMAIN a.Tickets |-> M_MarshalTicket(a.Tickets[id])],
     projectName |-> a.ProjectName]

M_UnmarshalActivity(j) ==
    LET tickets == Member(j, "tickets", JNull)
    IN [LastCheckIn |-> UnmarshalTime(Member(j, "lastCheckIn", MarshalTime(ZeroTime))),
        CheckIns |-> UnmarshalTimes(Member(j, "checkIns", JNull)),
        Tickets |-> IF tickets = JNull THEN NilMap
                    ELSE [id \in DOMAIN tickets |-> M_UnmarshalTicket(tickets[id])],
        ProjectName |-> Member(j, "projectName", "")]

\* saveDatabase, lines 353-359: the copy without the mutex, marshalled
M_Marshal(db) ==
    [userActivities |->
        IF db.UserActivities = NilMap THEN JNull
        ELSE [u \in DOMAIN db.UserActivities |->
                IF db.UserActivities[u] = NilMap THEN JNull
                ELSE [c \in DOMAIN db.UserActivities[u] |->
                        M_MarshalActivity(db.UserActivities[u][c])]]]

\* loadDatabase, lines 382-392: decoded into a fresh dbCopy, which then
\* replaces database.UserActivities
M_Unmarshal(db, doc) ==
    LET top == Member(doc, "userActivities", JNull)
    IN [db EXCEPT !.UserActivities =
            IF top = JNull THEN NilMap
            ELSE [u \in DOMAIN top |->
                    IF top[u] = JNull THEN NilMap
                    ELSE [c \in DOMAIN top[u] |-> M_UnmarshalActivity(top[u][c])]]]

\* does json.Unmarshal return an error for the document?
M_UnmarshalError(doc) ==
    LET top == Member(doc, "userActivities", JNull)
    IN /\ top # JNull
       /\ \E u \in DOMAIN top :
             /\ top[u] # JNull
             /\ \E c \in DOMAIN top[u] : Member(top[u][c], "checkIns", JNull) = JMistyped

\* database.UserActivities = make(map[string]map[string]UserActivity)
M_EmptyDatabase == [UserActivities |-> EmptyMap]

\* loadDatabase(): the database after it, given the file and the database
\* before; lines 386-390 return before line 392 when decoding failed
M_loadDatabase(f, db) ==
    IF f.state = "json" /\ ~M_UnmarshalError(f.doc) THEN M_Unmarshal(db, f.doc) ELSE db

\* config.TrackedChannels[channelID]: "" for a channel that is not tracked
M_projectOf(cfg, channelID) ==
    IF Has(cfg.TrackedChannels, channelID) THEN cfg.TrackedChannels[channelID] ELSE ""

\* lines 222-224 and 325-327: initialize the user map if it doesn't exist
M_withUser(db, userID) ==
    IF Has(db.UserActivities, userID) THEN db
    ELSE [db EXCEPT !.UserActivities = Put(@, userID, EmptyMap)]

\* database.UserActivities[userID][channelID] = activity
M_store(db, userID, channelID, activity) ==
    [db EXCEPT !.UserActivities =
        Put(@, userID, Put(db.UserActivities[userID], channelID, activity))]

\* recordCheckIn setting LastCheckIn only when it creates the record
M_checkedIn_firstOnly(db, userID, channelID, projectName, now) ==
    LET db1 == M_withUser(db, userID)
        ok == Has(db1.UserActivities[userID], channelID)
        activity == IF ok THEN db1.UserActivities[userID][channelID]
                    ELSE [LastCheckIn |-> now, CheckIns |-> <<>>,
                          Tickets |-> EmptyMap, ProjectName |-> projectName]
        recorded == [activity EXCEPT !.CheckIns = Append(@, now)]
    IN M_store(db1, userID, channelID, recorded)

\* recordCheckIn, lines 324-345
M_checkedIn(db, userID, channelID, projectName, now) ==
    LET db1 == M_withUser(db, userID)
        ok == Has(db1.UserActivities[userID], channelID)
        activity == IF ok THEN db1.UserActivities[userID][channelID]
                    ELSE [LastCheckIn |-> ZeroTime, CheckIns |-> <<>>,
                          Tickets |-> EmptyMap, ProjectName |-> projectName]
        recorded == [activity EXCEPT !.LastCheckIn = now, !.CheckIns = Append(@, now)]
    IN M_store(db1, userID, channelID, recorded)

\* createTicket, lines 221-235: the record the ticket goes into
M_withActivity(db, cfg, userID, channelID, now) ==
    LET db1 == M_withUser(db, userID)
    IN IF Has(db1.UserActivities[userID], channelID) THEN db1
       ELSE M_store(db1, userID, channelID,
                    [LastCheckIn |-> now, CheckIns |-> <<>>,
                     Tickets |-> EmptyMap, ProjectName |-> M_projectOf(cfg, channelID)])

\* the ticket ID taken from the number of open tickets
M_nextTicketID_open(activity) ==
    Itoa(Cardinality({id \in Keys(activity.Tickets) :
                        activity.Tickets[id].Status = "open"}) + 1)

\* createTicket, line 238: fmt.Sprintf("%d", len(Tickets)+1)
M_nextTicketID(activity) == Itoa(Cardinality(Keys(activity.Tickets)) + 1)

\* createTicket, lines 241-251
M_ticketCreated(db, userID, channelID, ticketID, title, description, now) ==
    LET userActivity == db.UserActivities[userID][channelID]
        ticket == M_Ticket(ticketID, title, description, now, userActivity.ProjectName)
    IN M_store(db, userID, channelID,
               [userActivity EXCEPT !.Tickets = Put(@, ticketID, ticket)])

\* completeTicket, lines 264-279: does the ticket exist?
M_found(db, userID, channelID, ticketID) ==
    /\ Has(db.UserActivities, userID)
    /\ Has(db.UserActivities[userID], channelID)
    /\ Has(db.UserActivities[userID][channelID].Tickets, ticketID)

\* completeTicket reopening a ticket that is already done
M_ticketDone_toggle(db, userID, channelID, ticketID, now) ==
    LET activity == db.UserActivities[userID][channelID]
        old == activity.Tickets[ticketID]
        ticket == IF old.Status = "done"
                  THEN [old EXCEPT !.Status = "open", !.CompletedAt = ZeroTime]
                  ELSE [old EXCEPT !.Status = "done", !.CompletedAt = now]
    IN M_store(db, userID, channelID,
               [activity EXCEPT !.Tickets = Put(@, ticketID, ticket)])

\* completeTicket setting the status and leaving CompletedAt alone
M_ticketDone_statusOnly(db, userID, channelID, ticketID, now) ==
    LET activity == db.UserActivities[userID][channelID]
        ticket == [activity.Tickets[ticketID] EXCEPT !.Status = "done"]
    IN M_store(db, userID, channelID,
               [activity EXCEPT !.Tickets = Put(@, ticketID, ticket)])

\* completeTicket, lines 282-286
M_ticketDone(db, userID, channelID, ticketID, now) ==
    LET activity == db.UserActivities[userID][channelID]
        ticket == [activity.Tickets[ticketID] EXCEPT !.Status = "done", !.CompletedAt = now]
    IN M_store(db, userID, channelID,
               [activity EXCEPT !.Tickets = Put(@, ticketID, ticket)])

\* recordCheckIn(userID, channelID, projectName), under database.mutex.Lock()
M_recordCheckIn(userID, channelID, projectName, w) ==
    /\ variant = "multi"
    /\ database' = M_checkedIn(database, userID, channelID, projectName, Now)
    /\ WriteFile(M_Marshal(database'), w)
    /\ ret' = Returned("recordCheckIn", userID, channelID, "", TRUE, w)
    /\ nOps' = nOps + 1
    /\ taken' = [taken EXCEPT ![<<userID, channelID>>] = Append(@, clock)]
    /\ UNCHANGED <<variant, config, clock, created, pollVars, shutdown>>

\* createTicket(userID, channelID, title, description), under database.mutex.Lock()
M_createTicket(userID, channelID, title, description, w) ==
    /\ variant = "multi"
    /\ LET db1 == M_withActivity(database, config, userID, channelID, Now)
           ticketID == M_nextTicketID(db1.UserActivities[userID][channelID])
       IN /\ database' = M_ticketCreated(db1, userID, channelID, ticketID,
                                         title, description, Now)
          /\ ret' = Returned("createTicket", userID, channelID, ticketID, TRUE, w)
    /\ WriteFile(M_Marshal(database'), w)
    /\ nOps' = nOps + 1
    /\ created' = [created EXCEPT ![<<userID, channelID>>] = @ + 1]
    /\ UNCHANGED <<variant, config, clock, taken, pollVars, shutdown>>

\* completeTicket saving the database before it looks the ticket up
M_completeTicket_saveAlways(userID, channelID, ticketID, w) ==
    /\ variant = "multi"
    /\ IF M_found(database, userID, channelID, ticketID)
       THEN /\ database' = M_ticketDone(database, userID, channelID, ticketID, Now)
            /\ WriteFile(M_Marshal(database'), w)
            /\ ret' = Returned("completeTicket", userID, channelID, ticketID, TRUE, w)
       ELSE /\ UNCHANGED database
            /\ WriteFile(M_Marshal(database), w)
            /\ ret' = Returned("completeTicket", userID, channelID, ticketID, FALSE, w)
    /\ nOps' = nOps + 1
    /\ UNCHANGED <<variant, config, clock, taken, created, pollVars, shutdown>>

\* completeTicket(userID, channelID, ticketID), under database.mutex.Lock()
M_completeTicket(userID, channelID, ticketID, w) ==
    /\ variant = "multi"
    /\ IF M_found(database, userID, channelID, ticketID)
       THEN /\ database' = M_ticketDone(database, userID, channelID, ticketID, Now)
            /\ WriteFile(M_Marshal(database'), w)
            /\ ret' = Returned("completeTicket", userID, channelID, ticketID, TRUE, w)
       ELSE /\ w = "ok"
            /\ ret' = Returned("completeTicket", userID, channelID, ticketID, FALSE, "none")
            /\ UNCHANGED <<database, file, writeFails>>
    /\ nOps' = nOps + 1
    /\ UNCHANGED <<variant, config, clock, taken, created, pollVars, shutdown>>

-----------------------------------------------------------------------------
(* Startup: main() *)

\* main.go, lines 62-71: the defaults main() sets
S_Config(reminderTime, frequency) ==
    [StudyChannelID |-> "c1", DatabasePath |-> "study_data.json",
     ReminderTime |-> reminderTime, CheckInFrequency |-> frequency]

\* part_000, lines 62-67 (no config file) or line 69 (a config file)
M_Config(tracked, reminderChannelID, reminderTime, frequency) ==
    [TrackedChannels |-> tracked, ReminderChannelID |-> reminderChannelID,
     CheckInFrequency |-> frequency, ReminderTime |-> reminderTime,
     DatabasePath |-> "accountability_data.json"]

NineOClock == <<"0", "9", ":", "0", "0">>

RecordKeys(v) == IF v = "single" THEN Users ELSE Users \X Channels

\* the state main() reaches before the first event, with no database file yet;
\* line 107 / main.go line 95 start the reminder routine, whose ticker
\* delivers every hour from then on
Started(v, cfg) ==
    /\ variant = v
    /\ config = cfg
    /\ database = IF v = "single" THEN S_EmptyDatabase ELSE M_EmptyDatabase
    /\ file = NoFile
    /\ ret = Returned("none", "", "", "", TRUE, "none")
    /\ nOps = 0
    /\ taken = [k \in RecordKeys(v) |-> <<>>]
    /\ created = [k \in RecordKeys(v) |-> 0]
    /\ writeFails = 0
    /\ nextTick = clock + 60
    /\ ticks = 0
    /\ tickAt = -1
    /\ sent = [k \in RecordKeys(v) |-> <<>>]
    /\ unreminded = [k \in RecordKeys(v) |-> 0]
    /\ shutdown = [pc |-> "running", data |-> JNull]
    /\ mutex = [w |-> "", r |-> {}]
    /\ running = [t \in Goroutines |-> NoCall]
    /\ heap = [arrays |-> <<>>, slice |-> NilSlice]

-----------------------------------------------------------------------------
(* The tracker operations, called one after another *)

Init ==
    /\ clock = 0
    /\ \/ Started("single", S_Config(NineOClock, 24))
       \/ Started("multi", M_Config([c1 |-> "P1"], "r1", NineOClock, 24))

\* time passes
Advance ==
    /\ clock < MaxClock
    /\ clock' = clock + 1
    /\ UNCHANGED <<variant, config, database, file, ret, nOps, taken, created, writeFails>>
    /\ UNCHANGED <<pollVars, shutdown, concVars>>

S_CheckIn ==
    /\ variant = "single"
    /\ nOps < MaxOpsS
    /\ \E u \in Users, n \in Usernames :
          /\ u # "u1" => Len(taken[u]) < MaxOther
          /\ S_recordCheckIn(u, n, "ok")
    /\ UNCHANGED concVars

M_CheckIn ==
    /\ nOps < MaxOpsM
    /\ \E u \in Users, c \in Channels, p \in ProjectNames :
          M_recordCheckIn(u, c, p, "ok")
    /\ UNCHANGED concVars

M_Create ==
    /\ nOps < MaxOpsM
    /\ \E u \in Users, c \in Channels, t \in Titles, d \in Descriptions :
          M_createTicket(u, c, t, d, "ok")
    /\ UNCHANGED concVars

M_Complete ==
    /\ nOps < MaxOpsM
    /\ \E u \in Users, c \in Channels, id \in TicketIDs :
          M_completeTicket(u, c, id, "ok")
    /\ UNCHANGED concVars

Next == Advance \/ S_CheckIn \/ M_CheckIn \/ M_Create \/ M_Complete

Spec == Init /\ [][Next]_vars

-----------------------------------------------------------------------------
(* Reading the database *)

\* is there an activity record under key k (a user, or a <<user, channel>>)?
HasRecord(v, db, k) ==
    IF v = "single" THEN Has(db.UserActivities, k)
    ELSE Has(db.UserActivities, k[1]) /\ Has(db.UserActivities[k[1]], k[2])

RecordOf(v, db, k) ==
    IF v = "single" THEN db.UserActivities[k] ELSE db.UserActivities[k[1]][k[2]]

\* the tickets of <<user, channel>> k in the multi variant
TicketsIn(db, k) ==
    IF HasRecord("multi", db, k) /\ RecordOf("multi", db, k).Tickets # NilMap
    THEN RecordOf("multi", db, k).Tickets ELSE EmptyMap

Walls(times) == [i \in 1..Len(times) |-> times[i].wall]
Min(a, b) == IF a < b THEN a ELSE b

\* the step is a call of operation op
Called(op) == nOps' = nOps + 1 /\ ret'.op = op

-----------------------------------------------------------------------------
(* The reminder routine.  ReminderTime is text, kept as its characters.    *)

IsDigit(c) == c \in {"0", "1", "2", "3", "4", "5", "6", "7", "8", "9"}

DigitValue(c) ==
    CASE c = "0" -> 0 [] c = "1" -> 1 [] c = "2" -> 2 [] c = "3" -> 3
      [] c = "4" -> 4 [] c = "5" -> 5 [] c = "6" -> 6 [] c = "7" -> 7
      [] c = "8" -> 8 [] c = "9" -> 9

RECURSIVE LeadingDigits(_)
LeadingDigits(s) ==
    IF s = <<>> \/ ~IsDigit(Head(s)) THEN <<>>
    ELSE <<Head(s)>> \o LeadingDigits(Tail(s))

RECURSIVE Decimal(_)
Decimal(d) ==
    IF d = <<>> THEN 0
    ELSE Decimal(SubSeq(d, 1, Len(d) - 1)) * 10 + DigitValue(d[Len(d)])

\* the %d verb of fmt.Sscanf on unsigned decimal text: the number read, if
\* any, and the text left
ScanInt(s) ==
    LET d == LeadingDigits(s)
    IN [ok |-> d # <<>>, value |-> Decimal(d), rest |-> SubSeq(s, Len(d) + 1, Len(s))]

\* strings.Split(s, sep)
RECURSIVE Split(_, _)
Split(s, sep) ==
    IF \A i \in 1..Len(s) : s[i] # sep THEN <<s>>
    ELSE LET i == CHOOSE j \in 1..Len(s) : s[j] = sep /\ \A h \in 1..(j - 1) : s[h] # sep
         IN <<SubSeq(s, 1, i - 1)>> \o Split(SubSeq(s, i + 1, Len(s)), sep)

\* time.Time.Hour() and Minute(), the clock counting minutes from a midnight
Hour(t) == (t.wall \div 60) % 24
Minute(t) == t.wall % 60

\* the largest time.Duration, in minutes: what Sub returns from the zero time
MaxDuration == 153722867

\* t.Sub(u), in minutes
Sub(t, u) == IF u.wall = ZeroWall THEN MaxDuration ELSE t.wall - u.wall

\* main.go, lines 216-223: fmt.Sscanf(config.ReminderTime, "%d:%d", ...)
S_reminderTime(cfg) ==
    LET h == ScanInt(cfg.ReminderTime)
    IN IF ~h.ok \/ h.rest = <<>> \/ Head(h.rest) # ":"
       THEN [ok |-> FALSE, hour |-> IF h.ok THEN h.value ELSE 9, minute |-> 0]
       ELSE LET m == ScanInt(Tail(h.rest))
            IN [ok |-> m.ok, hour |-> h.value, minute |-> IF m.ok THEN m.value ELSE 0]

\* main.go, line 226, negated: it is the time to send reminders
S_inWindow(cfg, now) ==
    LET r == S_reminderTime(cfg)
    IN /\ r.ok
       /\ ~(Hour(now) # r.hour \/ Minute(now) < r.minute \/ Minute(now) > r.minute + 5)

\* main.go, lines 232-235
S_overdue(activity, cfg, now) == Sub(now, activity.LastCheckIn) > cfg.CheckInFrequency * 60

\* the hours a reminder names: int(hoursSinceLastCheckIn)
HoursSince(activity, now) == Sub(now, activity.LastCheckIn) \div 60

\* main.go, lines 231-238: the messages sendReminder sends, per user
S_reminders(db, cfg, now) ==
    [u \in Users |->
        IF Has(db.UserActivities, u) /\ S_overdue(db.UserActivities[u], cfg, now)
        THEN <<HoursSince(db.UserActivities[u], now)>> ELSE <<>>]

\* checkAndSendReminders(s)
S_checkAndSendReminders(db, cfg, now) ==
    IF S_inWindow(cfg, now) THEN S_reminders(db, cfg, now) ELSE [u \in Users |-> <<>>]

\* part_000, lines 402-412: strings.Split, then fmt.Sscanf on each part with
\* its error ignored
M_reminderTime(cfg) ==
    LET parts == Split(cfg.ReminderTime, ":")
    IN IF Len(parts) # 2 THEN [ok |-> FALSE, hour |-> 9, minute |-> 0]
       ELSE [ok |-> TRUE,
             hour |-> IF ScanInt(parts[1]).ok THEN ScanInt(parts[1]).value ELSE 9,
             minute |-> IF ScanInt(parts[2]).ok THEN ScanInt(parts[2]).value ELSE 0]

\* part_000, line 415
M_inWindow(cfg, now) ==
    LET r == M_reminderTime(cfg)
    IN /\ r.ok
       /\ Hour(now) = r.hour /\ Minute(now) < r.minute + 5 /\ Minute(now) >= r.minute

M_overdue_atThreshold(activity, cfg, now) ==
    Sub(now, activity.LastCheckIn) >= cfg.CheckInFrequency * 60

\* part_000, line 436
M_overdue(activity, cfg, now) == Sub(now, activity.LastCheckIn) > cfg.CheckInFrequency * 60

\* sendDailyReminders(s), under database.mutex.RLock(): the messages sent,
\* per user and channel
M_sendDailyReminders(db, cfg, now) ==
    [k \in Users \X Channels |->
        IF /\ cfg.ReminderChannelID # ""
           /\ HasRecord("multi", db, k)
           /\ M_overdue(RecordOf("multi", db, k), cfg, now)
        THEN <<HoursSince(RecordOf("multi", db, k), now)>> ELSE <<>>]

\* part_000, lines 399-417: one tick of reminderRoutine
M_tick(db, cfg, now) ==
    IF M_inWindow(cfg, now) THEN M_sendDailyReminders(db, cfg, now)
    ELSE [k \in Users \X Channels |-> <<>>]

\* was the record under k overdue at `now`?
Overdue(v, db, cfg, k, now) ==
    /\ HasRecord(v, db, k)
    /\ IF v = "single" THEN S_overdue(RecordOf(v, db, k), cfg, now)
       ELSE M_overdue(RecordOf(v, db, k), cfg, now)

\* the ticker delivers and the routine handles the tick
Ticked(messages) ==
    /\ clock = nextTick
    /\ nextTick' = nextTick + 60
    /\ ticks' = ticks + 1
    /\ tickAt' = clock
    /\ sent' = messages
    /\ unreminded' = [k \in DOMAIN unreminded |->
                        IF Overdue(variant, database, config, k, Now) /\ messages[k] = <<>>
                        THEN unreminded[k] + 1 ELSE 0]
    /\ UNCHANGED <<trackerVars, shutdown, concVars>>

\* main.go, lines 207-209
S_reminderRoutine ==
    /\ variant = "single"
    /\ Ticked(S_checkAndSendReminders(database, config, Now))

\* part_000, lines 398-418
M_reminderRoutine ==
    /\ variant = "multi"
    /\ Ticked(M_tick(database, config, Now))

\* time passes, to the minute before the next tick or to the tick
Pass ==
    /\ \E t \in {nextTick - 1, nextTick} : t > clock /\ clock' = t
    /\ UNCHANGED <<variant, config, database, file, ret, nOps, taken, created, writeFails>>
    /\ UNCHANGED <<pollVars, shutdown, concVars>>

-----------------------------------------------------------------------------
(* The reminder routine next to check-ins, over a few hours *)

StartTimes == {1, 2, 6, 7, 8}
ReminderTimes == {<<"0", "2", ":", "0", "2">>}
Pairs == {<<"u1", "c1">>, <<"u1", "c2">>, <<"u2", "c1">>}

InitRemind ==
    \E t0 \in StartTimes, rt \in ReminderTimes :
        /\ clock = t0
        /\ \/ Started("single", S_Config(rt, 1))
           \/ \E rc \in {"r1", ""} : Started("multi", M_Config([c1 |-> "P1"], rc, rt, 1))

R_Pass == ticks < MaxTicksR /\ Pass

R_Tick == S_reminderRoutine \/ M_reminderRoutine

R_CheckInS ==
    /\ variant = "single"
    /\ nOps < MaxOpsR
    /\ \E u \in Users, n \in Usernames : S_recordCheckIn(u, n, "ok")
    /\ UNCHANGED concVars

R_CheckInM ==
    /\ variant = "multi"
    /\ nOps < MaxOpsR
    /\ \E k \in Pairs, p \in ProjectNames : M_recordCheckIn(k[1], k[2], p, "ok")
    /\ UNCHANGED concVars

NextRemind == R_Pass \/ R_Tick \/ R_CheckInS \/ R_CheckInM

SpecRemind == InitRemind /\ [][NextRemind]_vars

-----------------------------------------------------------------------------
(* The reminder routine over a day of hourly ticks *)

StartTimesD == {8, 30}

InitDay ==
    \E t0 \in StartTimesD :
        /\ clock = t0
        /\ \/ Started("single", S_Config(<<"0", "2", ":", "0", "2">>, 1))
           \/ Started("multi", M_Config([c1 |-> "P1"], "r1", <<"0", "2", ":", "0", "2">>, 1))

D_Pass == ticks < MaxTicksD /\ Pass

D_Tick == S_reminderRoutine \/ M_reminderRoutine

D_CheckInS ==
    /\ variant = "single"
    /\ nOps < MaxOpsD
    /\ S_recordCheckIn("u1", "kevin.you", "ok")
    /\ UNCHANGED concVars

D_CheckInM ==
    /\ variant = "multi"
    /\ nOps < MaxOpsD
    /\ M_recordCheckIn("u1", "c1", "P1", "ok")
    /\ UNCHANGED concVars

NextDay == D_Pass \/ D_Tick \/ D_CheckInS \/ D_CheckInM

SpecDay == InitDay /\ [][NextDay]_vars

-----------------------------------------------------------------------------
(* The exit: after the signal main calls saveDatabase, the session still   *)
(* open and its handlers still being called.                               *)

Marshal(v, db) == IF v = "single" THEN S_Marshal(db) ELSE M_Marshal(db)

\* saveDatabase, first half: json.MarshalIndent of the database as it is
shutdownMarshal ==
    /\ shutdown.pc = "running"
    /\ shutdown' = [pc |-> "saving", data |-> Marshal(variant, database)]
    /\ UNCHANGED <<trackerVars, pollVars, concVars>>

\* saveDatabase, second half: os.WriteFile of the marshalled data; main returns
shutdownWrite(w) ==
    /\ shutdown.pc = "saving"
    /\ WriteFile(shutdown.data, w)
    /\ shutdown' = [shutdown EXCEPT !.pc = "exited"]
    /\ UNCHANGED <<variant, config, database, clock, ret, nOps, taken, created>>
    /\ UNCHANGED <<pollVars, concVars>>

X_Signal == shutdownMarshal

X_Save == shutdownWrite("ok")

X_CheckInS ==
    /\ variant = "single"
    /\ shutdown.pc # "exited"
    /\ nOps < MaxOpsX
    /\ \E u \in Users, n \in Usernames : S_recordCheckIn(u, n, "ok")
    /\ UNCHANGED concVars

X_CheckInM ==
    /\ variant = "multi"
    /\ shutdown.pc # "exited"
    /\ nOps < MaxOpsX
    /\ \E u \in Users, c \in Channels, p \in ProjectNames : M_recordCheckIn(u, c, p, "ok")
    /\ UNCHANGED concVars

X_Create ==
    /\ variant = "multi"
    /\ shutdown.pc # "exited"
    /\ nOps < MaxOpsX
    /\ \E u \in Users, c \in Channels, t \in Titles, d \in Descriptions :
          M_createTicket(u, c, t, d, "ok")
    /\ UNCHANGED concVars

X_Complete ==
    /\ variant = "multi"
    /\ shutdown.pc # "exited"
    /\ nOps < MaxOpsX
    /\ \E u \in Users, c \in Channels, id \in TicketIDs : M_completeTicket(u, c, id, "ok")
    /\ UNCHANGED concVars

NextExit == X_Signal \/ X_Save \/ X_CheckInS \/ X_CheckInM \/ X_Create \/ X_Complete \/ Advance

SpecExit == Init /\ [][NextExit]_vars

-----------------------------------------------------------------------------
(* Restart: the process ends, the file may be damaged while it is down,    *)
(* and main() runs again: a fresh empty database, then loadDatabase().     *)

EmptyDatabase(v) == IF v = "single" THEN S_EmptyDatabase ELSE M_EmptyDatabase

loadDatabase(v, f, db) ==
    IF v = "single" THEN S_loadDatabase(f, db) ELSE M_loadDatabase(f, db)

\* the documents that differ from doc in one record, whose check-in history
\* is text instead of an array
Mistyped(v, doc) ==
    IF v = "single"
    THEN {[doc EXCEPT !.userActivities[u].checkIns = JMistyped] :
            u \in DOMAIN doc.userActivities}
    ELSE {[doc EXCEPT !.userActivities[k[1]][k[2]].checkIns = JMistyped] :
            k \in {x \in Users \X Channels :
                     /\ x[1] \in DOMAIN doc.userActivities
                     /\ x[2] \in DOMAIN doc.userActivities[x[1]]}}

\* the process is killed
Stop ==
    /\ shutdown.pc = "running"
    /\ shutdown' = [shutdown EXCEPT !.pc = "exited"]
    /\ UNCHANGED <<trackerVars, pollVars, concVars>>

\* the file is removed, cut short, or edited into a document of the wrong shape
Damage ==
    /\ shutdown.pc = "exited"
    /\ file.state = "json"
    /\ file' \in {NoFile, BrokenFile} \cup {FileOf(d) : d \in Mistyped(variant, file.doc)}
    /\ UNCHANGED <<variant, config, database, clock, ret, nOps, taken, created, writeFails>>
    /\ UNCHANGED <<pollVars, shutdown, concVars>>

\* main(), up to the start of the reminder routine
Restart ==
    /\ shutdown.pc = "exited"
    /\ database' = loadDatabase(variant, file, EmptyDatabase(variant))
    /\ shutdown' = [pc |-> "running", data |-> JNull]
    /\ nextTick' = clock + 60
    /\ UNCHANGED <<variant, config, file, clock, ret, nOps, taken, created, writeFails>>
    /\ UNCHANGED <<ticks, tickAt, sent, unreminded, concVars>>

L_CheckInS ==
    /\ variant = "single"
    /\ shutdown.pc = "running"
    /\ nOps < MaxOpsL
    /\ \E u \in Users, n \in Usernames : S_recordCheckIn(u, n, "ok")
    /\ UNCHANGED concVars

L_CheckInM ==
    /\ variant = "multi"
    /\ shutdown.pc = "running"
    /\ nOps < MaxOpsL
    /\ \E u \in Users, c \in Channels, p \in ProjectNames : M_recordCheckIn(u, c, p, "ok")
    /\ UNCHANGED concVars

L_Create ==
    /\ variant = "multi"
    /\ shutdown.pc = "running"
    /\ nOps < MaxOpsL
    /\ \E u \in Users, c \in Channels, t \in Titles, d \in Descriptions :
          M_createTicket(u, c, t, d, "ok")
    /\ UNCHANGED concVars

NextLoad == Stop \/ Damage \/ Restart \/ L_CheckInS \/ L_CheckInM \/ L_Create \/ Advance

SpecLoad == Init /\ [][NextLoad]_vars

-----------------------------------------------------------------------------
(* Goroutines and database.mutex.  A call is entered (its Lock or RLock,   *)
(* if it takes one, acquired), does its work on the database, and is left  *)
(* (the deferred Unlock or RUnlock).  recordCheckIn of the single variant  *)
(* takes no lock, so its read of the record (line 140) and its write back  *)
(* (line 163) are separate steps.                                          *)

Mutators == {"recordCheckIn", "createTicket", "completeTicket"}

CallOf(call, user, channel, id) ==
    [pc |-> "entered", call |-> call, user |-> user, channel |-> channel,
     id |-> id, local |-> ""]

\* the calls goroutine t can be inside
CallsOf(v, t) ==
    IF t = "main" THEN {CallOf("saveDatabase", "", "", "")}
    ELSE IF t = "poller"
    THEN {CallOf(IF v = "single" THEN "checkAndSendReminders" ELSE "sendDailyReminders",
                 "", "", "")}
    ELSE IF v = "single" THEN {CallOf("recordCheckIn", u, "", "") : u \in {"u1"}}
    ELSE {CallOf("recordCheckIn", "u1", "c1", ""),
          CallOf("createTicket", "u1", "c1", ""),
          CallOf("completeTicket", "u1", "c1", "1"),
          CallOf("listTickets", "u1", "c1", ""),
          CallOf("handleStatsCommand", "u1", "", ""),
          CallOf("handleProgressCommand", "u1", "", "")}

\* sendDailyReminders taking database.mutex.Lock()
LockOf_pollerExclusive(v, call) ==
    IF v = "single" THEN ""
    ELSE IF call \in Mutators \cup {"sendDailyReminders"} THEN "w"
    ELSE IF call \in {"listTickets", "handleStatsCommand", "handleProgressCommand"} THEN "r"
    ELSE ""

\* what the call does first: "w" database.mutex.Lock(), "r" RLock(), "" neither
LockOf(v, call) ==
    IF v = "single" THEN ""
    ELSE IF call \in Mutators THEN "w"
    ELSE IF call \in {"listTickets", "handleStatsCommand", "handleProgressCommand",
                      "sendDailyReminders"} THEN "r"
    ELSE ""

Acquire(t, l) ==
    CASE l = "w" -> /\ mutex.w = "" /\ mutex.r = {}
                    /\ mutex' = [mutex EXCEPT !.w = t]
      [] l = "r" -> /\ mutex.w = ""
                    /\ mutex' = [mutex EXCEPT !.r = @ \cup {t}]
      [] OTHER -> UNCHANGED mutex

Release(t, l) ==
    CASE l = "w" -> mutex' = [mutex EXCEPT !.w = ""]
      [] l = "r" -> mutex' = [mutex EXCEPT !.r = @ \ {t}]
      [] OTHER -> UNCHANGED mutex

Mutating == {t \in Goroutines : running[t].call \in Mutators}

enter(t) ==
    /\ running[t].pc = "idle"
    /\ \E c \in CallsOf(variant, t) :
          /\ c.call \in Mutators => nOps + Cardinality(Mutating) < MaxOpsK
          /\ Acquire(t, LockOf(variant, c.call))
          /\ running' = [running EXCEPT ![t] = c]
    /\ UNCHANGED <<trackerVars, pollVars, shutdown, heap>>

\* main.go, lines 140-160: the local `activity`, read and appended to
S_read(t) ==
    /\ variant = "single"
    /\ running[t].pc = "entered" /\ running[t].call = "recordCheckIn"
    /\ running' = [running EXCEPT
                     ![t].pc = "read",
                     ![t].local = S_checkedIn(database, running[t].user, "kevin.you", Now)]
    /\ UNCHANGED <<trackerVars, pollVars, shutdown, mutex, heap>>

\* main.go, lines 163-166: the local `activity` stored, the database saved
S_write(t) ==
    /\ variant = "single"
    /\ running[t].pc = "read"
    /\ database' = S_store(database, running[t].user, running[t].local)
    /\ WriteFile(S_Marshal(database'), "ok")
    /\ ret' = Returned("recordCheckIn", running[t].user, "", "", TRUE, "ok")
    /\ nOps' = nOps + 1
    /\ taken' = [taken EXCEPT ![running[t].user] = Append(@, running[t].local.LastCheckIn.wall)]
    /\ running' = [running EXCEPT ![t].pc = "done"]
    /\ UNCHANGED <<variant, config, clock, created, pollVars, shutdown, mutex, heap>>

\* the body of a call of the multi variant that changes the database
M_write(t) ==
    /\ variant = "multi"
    /\ running[t].pc = "entered"
    /\ LET c == running[t]
       IN CASE c.call = "recordCheckIn" ->
                 M_recordCheckIn(c.user, c.channel, M_projectOf(config, c.channel), "ok")
            [] c.call = "createTicket" -> M_createTicket(c.user, c.channel, "T", "D", "ok")
            [] c.call = "completeTicket" -> M_completeTicket(c.user, c.channel, c.id, "ok")
            [] OTHER -> FALSE
    /\ running' = [running EXCEPT ![t].pc = "done"]
    /\ UNCHANGED <<mutex, heap>>

\* saveDatabase called from main: the database marshalled and written
save(t) ==
    /\ running[t].pc = "entered" /\ running[t].call = "saveDatabase"
    /\ WriteFile(Marshal(variant, database), "ok")
    /\ running' = [running EXCEPT ![t].pc = "done"]
    /\ UNCHANGED <<variant, config, database, clock, ret, nOps, taken, created>>
    /\ UNCHANGED <<pollVars, shutdown, mutex, heap>>

\* the body of a call that only reads the database
read(t) ==
    /\ running[t].pc = "entered"
    /\ running[t].call \notin Mutators \cup {"saveDatabase"}
    /\ running' = [running EXCEPT ![t].pc = "done"]
    /\ UNCHANGED <<trackerVars, pollVars, shutdown, mutex, heap>>

leave(t) ==
    /\ running[t].pc = "done"
    /\ Release(t, LockOf(variant, running[t].call))
    /\ running' = [running EXCEPT ![t] = NoCall]
    /\ UNCHANGED <<trackerVars, pollVars, shutdown, heap>>

K_Enter == \E t \in Goroutines : enter(t)
K_ReadS == \E t \in Goroutines : S_read(t)
K_WriteS == \E t \in Goroutines : S_write(t)
K_WriteM == \E t \in Goroutines : M_write(t)
K_Save == \E t \in Goroutines : save(t)
K_Read == \E t \in Goroutines : read(t)
K_Leave == \E t \in Goroutines : leave(t)

NextLock == K_Enter \/ K_ReadS \/ K_WriteS \/ K_WriteM \/ K_Save \/ K_Read \/ K_Leave

SpecLock == Init /\ [][NextLock]_vars

-----------------------------------------------------------------------------
(* Message events.  The content of a message is text, kept as its          *)
(* characters; a message is [author, username, channel, content].          *)

\* s.State.User.ID
BotID == "bot"

\* the text as a Go string
RECURSIVE Join(_)
Join(s) == IF s = <<>> THEN "" ELSE Head(s) \o Join(Tail(s))

\* strings.HasPrefix(s, prefix)
HasPrefix(s, prefix) == Len(s) >= Len(prefix) /\ SubSeq(s, 1, Len(prefix)) = prefix

\* strings.SplitN(s, sep, n) for n > 0: at most n parts, the last one the
\* unsplit remainder
RECURSIVE SplitN(_, _, _)
SplitN(s, sep, n) ==
    IF n = 1 \/ \A i \in 1..Len(s) : s[i] # sep THEN <<s>>
    ELSE LET i == CHOOSE j \in 1..Len(s) : s[j] = sep /\ \A h \in 1..(j - 1) : s[h] # sep
         IN <<SubSeq(s, 1, i - 1)>> \o SplitN(SubSeq(s, i + 1, Len(s)), sep, n - 1)

\* strings.TrimSpace(s)
RECURSIVE TrimLeft(_)
TrimLeft(s) == IF s # <<>> /\ Head(s) = " " THEN TrimLeft(Tail(s)) ELSE s

RECURSIVE TrimRight(_)
TrimRight(s) ==
    IF s # <<>> /\ s[Len(s)] = " " THEN TrimRight(SubSeq(s, 1, Len(s) - 1)) ELSE s

TrimSpace(s) == TrimRight(TrimLeft(s))

TicketWord == <<"!", "t", "i", "c", "k", "e", "t">>
CreateWord == <<"c", "r", "e", "a", "t", "e">>
DoneWord == <<"d", "o", "n", "e">>
ListWord == <<"l", "i", "s", "t">>

\* main.go, lines 121-127: is the message recorded?
S_qualifies(cfg, m) ==
    /\ m.author # BotID
    /\ m.channel = cfg.StudyChannelID /\ m.username = "kevin.you"

\* messageCreate(s, m) of the single variant
S_messageCreate(m) ==
    /\ variant = "single"
    /\ IF S_qualifies(config, m)
       THEN /\ database' = S_store(database, m.author,
                                   S_checkedIn(database, m.author, m.username, Now))
            /\ WriteFile(S_Marshal(database'), "ok")
            /\ taken' = [taken EXCEPT ![m.author] = Append(@, clock)]
       ELSE UNCHANGED <<database, file, writeFails, taken>>
    /\ ret' = [op |-> "messageCreate", user |-> m.author, channel |-> m.channel,
               id |-> "", ok |-> S_qualifies(config, m), write |-> "ok",
               message |-> m, replies |-> <<>>]
    /\ nOps' = nOps + 1
    /\ UNCHANGED <<variant, config, clock, created, pollVars, shutdown>>

\* part_000, lines 130-136 with the bot test left out
M_qualifies_anyAuthor(cfg, m) == Has(cfg.TrackedChannels, m.channel)

\* part_000, lines 130-136: is the message recorded?
M_qualifies(cfg, m) == m.author # BotID /\ Has(cfg.TrackedChannels, m.channel)

\* listTickets(userID, channelID): the tickets, as a set
M_listTickets(db, userID, channelID) ==
    IF Has(db.UserActivities, userID) /\ Has(db.UserActivities[userID], channelID)
    THEN LET tickets == db.UserActivities[userID][channelID].Tickets
         IN {tickets[id] : id \in Keys(tickets)}
    ELSE {}

M_noCommand(db) == [db |-> db, op |-> "", id |-> "", ok |-> TRUE, replies |-> <<>>]

\* handleTicketCommand(s, m): the database after it, the call it made and the
\* reply it sent
M_handleTicketCommand(db, cfg, m, now) ==
    LET parts == SplitN(m.content, " ", 3)
        said(op, id, ok, db1, reply) ==
            [db |-> db1, op |-> op, id |-> id, ok |-> ok, replies |-> <<reply>>]
    IN IF Len(parts) < 2 THEN said("", "", FALSE, db, "Usage")
       ELSE IF parts[2] = CreateWord
       THEN IF Len(parts) < 3 THEN said("", "", FALSE, db, "Usage: create")
            ELSE LET titleDesc == SplitN(parts[3], "|", 2)
                     title == Join(TrimSpace(titleDesc[1]))
                     description == IF Len(titleDesc) > 1
                                    THEN Join(TrimSpace(titleDesc[2])) ELSE ""
                     db1 == M_withActivity(db, cfg, m.author, m.channel, now)
                     ticketID == M_nextTicketID(db1.UserActivities[m.author][m.channel])
                 IN said("createTicket", ticketID, TRUE,
                         M_ticketCreated(db1, m.author, m.channel, ticketID,
                                         title, description, now),
                         "Created")
       ELSE IF parts[2] = DoneWord
       THEN IF Len(parts) < 3 THEN said("", "", FALSE, db, "Usage: done")
            ELSE LET ticketID == Join(TrimSpace(parts[3]))
                 IN IF M_found(db, m.author, m.channel, ticketID)
                    THEN said("completeTicket", ticketID, TRUE,
                              M_ticketDone(db, m.author, m.channel, ticketID, now),
                              "Completed")
                    ELSE said("completeTicket", ticketID, FALSE, db, "Could not find")
       ELSE IF parts[2] = ListWord
       THEN IF M_listTickets(db, m.author, m.channel) = {}
            THEN said("listTickets", "", TRUE, db, "No tickets found")
            ELSE said("listTickets", "", TRUE, db, "Your Tickets")
       ELSE said("", "", FALSE, db, "Unknown ticket command")

\* messageCreate(s, m) of the multi variant
M_messageCreate(m) ==
    /\ variant = "multi"
    /\ LET recorded == M_checkedIn(database, m.author, m.channel,
                                   M_projectOf(config, m.channel), Now)
           cmd == IF ~M_qualifies(config, m) THEN M_noCommand(database)
                  ELSE IF HasPrefix(m.content, TicketWord)
                  THEN M_handleTicketCommand(recorded, config, m, Now)
                  ELSE M_noCommand(recorded)
       IN /\ database' = cmd.db
          /\ IF M_qualifies(config, m)
             THEN /\ WriteFile(M_Marshal(database'), "ok")
                  /\ taken' = [taken EXCEPT ![<<m.author, m.channel>>] = Append(@, clock)]
             ELSE UNCHANGED <<file, writeFails, taken>>
          /\ created' = IF cmd.op = "createTicket"
                        THEN [created EXCEPT ![<<m.author, m.channel>>] = @ + 1]
                        ELSE created
          /\ ret' = [op |-> "messageCreate", user |-> m.author, channel |-> m.channel,
                     id |-> cmd.id, ok |-> cmd.ok, write |-> "ok",
                     message |-> m, command |-> cmd.op, replies |-> cmd.replies]
    /\ nOps' = nOps + 1
    /\ UNCHANGED <<variant, config, clock, pollVars, shutdown>>

Authors == {"u1", "u2", BotID}
AuthorNames == {"kevin.you", "someone"}

Contents ==
    {<<"h", "i">>,
     TicketWord,
     TicketWord \o <<" ">>,
     TicketWord \o <<" ">> \o CreateWord,
     TicketWord \o <<" ">> \o CreateWord \o <<" ">>,
     TicketWord \o <<" ">> \o CreateWord \o <<" ", "T">>,
     TicketWord \o <<" ">> \o CreateWord \o <<" ", "|", "D">>,
     TicketWord \o <<" ">> \o DoneWord,
     TicketWord \o <<" ">> \o DoneWord \o <<" ", "1">>,
     TicketWord \o <<" ">> \o ListWord,
     TicketWord \o <<" ", "x">>}

G_MessageS ==
    /\ nOps < MaxOpsG
    /\ \E a \in Authors, n \in AuthorNames, c \in Channels :
          S_messageCreate([author |-> a, username |-> n, channel |-> c,
                           content |-> <<"h", "i">>])
    /\ UNCHANGED concVars

G_MessageM ==
    /\ nOps < MaxOpsG
    /\ \E a \in Authors, c \in Channels, t \in Contents :
          M_messageCreate([author |-> a, username |-> "someone", channel |-> c,
                           content |-> t])
    /\ UNCHANGED concVars

NextMsg == G_MessageS \/ G_MessageM \/ Advance

SpecMsg == Init /\ [][NextMsg]_vars

-----------------------------------------------------------------------------
(* recordCheckIn of the single variant with overlapping calls.  It takes   *)
(* no lock: its read of the record (line 140), its append (line 155) and   *)
(* its write back (line 163) are steps other goroutines can come between.  *)
(* The histories stay shorter than HistoryCap here, so the reslice of line *)
(* 158 is not taken.                                                       *)

InitRace ==
    /\ clock = 0
    /\ Started("single", S_Config(NineOClock, 24))

InRecordCheckIn == {t \in Goroutines : running[t].call = "recordCheckIn"}

\* the record database.UserActivities holds, its CheckIns as its header shows
\* them in heap h
Shown(db, h, userID) ==
    IF Has(db.UserActivities, userID)
    THEN [db EXCEPT !.UserActivities[userID].CheckIns = View(h, h.slice)]
    ELSE db

\* messageCreate, line 129: the handler's goroutine calls recordCheckIn
R_Enter ==
    /\ nOps + Cardinality(InRecordCheckIn) < MaxOpsC
    /\ \E t \in {"h1", "h2"} :
          /\ running[t].pc = "idle"
          /\ running' = [running EXCEPT ![t] = CallOf("recordCheckIn", "u1", "", "")]
    /\ UNCHANGED <<trackerVars, pollVars, shutdown, mutex, heap>>

\* lines 140-150: activity, exists := database.UserActivities[userID]
R_Read ==
    /\ \E t \in InRecordCheckIn :
          /\ running[t].pc = "entered"
          /\ LET userID == running[t].user
                 exists == Has(database.UserActivities, userID)
                 activity == IF exists THEN database.UserActivities[userID]
                             ELSE S_UserActivity(userID, "kevin.you")
             IN running' = [running EXCEPT
                    ![t].pc = "read",
                    ![t].local = [activity |-> [activity EXCEPT !.Username = "kevin.you"],
                                  slice |-> IF exists THEN heap.slice ELSE NilSlice]]
    /\ UNCHANGED <<trackerVars, pollVars, shutdown, mutex, heap>>

\* lines 153-155: now := time.Now(); activity.LastCheckIn = now;
\* activity.CheckIns = append(activity.CheckIns, now)
R_Append ==
    /\ \E t \in InRecordCheckIn :
          /\ running[t].pc = "read"
          /\ LET a == append(heap, running[t].local.slice, Now)
             IN /\ heap' = a.heap
                /\ running' = [running EXCEPT
                       ![t].pc = "appended",
                       ![t].local = [activity |-> [@.activity EXCEPT !.LastCheckIn = Now],
                                     slice |-> a.slice]]
                /\ database' = Shown(database, a.heap, running[t].user)
    /\ UNCHANGED <<variant, config, file, clock, ret, nOps, taken, created, writeFails>>
    /\ UNCHANGED <<pollVars, shutdown, mutex>>

\* lines 163-166: database.UserActivities[userID] = activity; saveDatabase()
R_Store ==
    /\ \E t \in InRecordCheckIn :
          /\ running[t].pc = "appended"
          /\ LET l == running[t].local
             IN /\ heap' = [heap EXCEPT !.slice = l.slice]
                /\ database' = S_store(database, running[t].user,
                                       [l.activity EXCEPT !.CheckIns = View(heap, l.slice)])
                /\ taken' = [taken EXCEPT ![running[t].user] =
                                Append(@, l.activity.LastCheckIn.wall)]
                /\ ret' = Returned("recordCheckIn", running[t].user, "", "", TRUE, "ok")
          /\ running' = [running EXCEPT ![t] = NoCall]
    /\ WriteFile(S_Marshal(database'), "ok")
    /\ nOps' = nOps + 1
    /\ UNCHANGED <<variant, config, clock, created, pollVars, shutdown, mutex>>

NextRace == R_Enter \/ R_Read \/ R_Append \/ R_Store \/ Advance

SpecRace == InitRace /\ [][NextRace]_vars

-----------------------------------------------------------------------------
(* float64, for getPercentage.  A positive value is a binary exponent e    *)
(* and the Precision bits m of its significand, most significant first:    *)
(* m[1] = 1 and the value is m[1].m[2]m[3]... * 2^e.  Zero has no bits.    *)
(* Results are rounded to nearest, ties to even, as the hardware does.     *)

FZero == [e |-> 0, m |-> <<>>]

Zeros(n) == [i \in 1..n |-> 0]

\* bits + 1, for bits that are not all ones: the last zero becomes a one
\* and the ones after it zeros
Inc(bits) ==
    LET last == CHOOSE i \in 1..Len(bits) :
                    bits[i] = 0 /\ \A j \in (i + 1)..Len(bits) : bits[j] = 1
    IN [i \in 1..Len(bits) |-> IF i < last THEN bits[i] ELSE IF i = last THEN 1 ELSE 0]

\* the float64 nearest to 1.bits * 2^e, where bits starts with a one and
\* sticky tells of a nonzero rest below the bits given
Round(e, bits, sticky) ==
    IF Len(bits) <= Precision
    THEN [e |-> e, m |-> bits \o Zeros(Precision - Len(bits))]
    ELSE LET kept == SubSeq(bits, 1, Precision)
             rest == sticky \/ \E i \in (Precision + 2)..Len(bits) : bits[i] = 1
             up == bits[Precision + 1] = 1 /\ (rest \/ kept[Precision] = 1)
         IN IF ~up THEN [e |-> e, m |-> kept]
            ELSE IF \A i \in 1..Precision : kept[i] = 1
            THEN [e |-> e + 1, m |-> <<1>> \o Zeros(Precision - 1)]
            ELSE [e |-> e, m |-> Inc(kept)]

\* the next n bits of r / den, for r < den
RECURSIVE DivBits(_, _, _)
DivBits(r, den, n) ==
    IF n = 0 THEN <<>>
    ELSE LET b == IF 2 * r >= den THEN 1 ELSE 0
         IN <<b>> \o DivBits(2 * r - b * den, den, n - 1)

\* the remainder after them
RECURSIVE DivRem(_, _, _)
DivRem(r, den, n) ==
    IF n = 0 THEN r
    ELSE DivRem(2 * r - (IF 2 * r >= den THEN den ELSE 0), den, n - 1)

\* num / den scaled by a power of two into [1, 2)
RECURSIVE Scaled(_, _, _)
Scaled(num, den, e) ==
    IF num < den THEN Scaled(2 * num, den, e - 1)
    ELSE IF num >= 2 * den THEN Scaled(num, 2 * den, e + 1)
    ELSE [num |-> num, den |-> den, e |-> e]

\* float64(a) / float64(b) for small integers a >= 0 and b > 0 (their
\* conversions are exact): the quotient, rounded
Quotient(a, b) ==
    IF a = 0 THEN FZero
    ELSE LET s == Scaled(a, b, 0)
         IN Round(s.e, <<1>> \o DivBits(s.num - s.den, s.den, Precision),
                  DivRem(s.num - s.den, s.den, Precision) # 0)

\* float64(n)
FromInt(n) == Quotient(n, 1)

Reverse(q) == [i \in 1..Len(q) |-> q[Len(q) + 1 - i]]

\* k times the number whose bits, least significant first, are a; the
\* product least significant first too
RECURSIVE TimesBits(_, _, _)
TimesBits(a, k, carry) ==
    IF a = <<>>
    THEN (IF carry = 0 THEN <<>> ELSE <<carry % 2>> \o TimesBits(a, k, carry \div 2))
    ELSE LET t == a[1] * k + carry
         IN <<t % 2>> \o TimesBits(Tail(a), k, t \div 2)

\* x * float64(k) for a small integer k > 0 (its conversion is exact): the
\* product, rounded
Times(x, k) ==
    IF x = FZero THEN FZero
    ELSE LET p == Reverse(TimesBits(Reverse(x.m), k, 0))
         IN Round(x.e + Len(p) - Precision, p, FALSE)

\* x <= y
FLeq(x, y) ==
    IF x = FZero THEN TRUE
    ELSE IF y = FZero THEN FALSE
    ELSE IF x.e # y.e THEN x.e < y.e
    ELSE \/ x.m = y.m
         \/ \E i \in 1..Precision :
               /\ x.m[i] < y.m[i]
               /\ \A j \in 1..(i - 1) : x.m[j] = y.m[j]

\* getPercentage without the multiplication: the fraction done
getPercentage_fraction(completed, total) ==
    IF total = 0 THEN FZero ELSE Quotient(completed, total)

\* getPercentage(completed, total)
getPercentage(completed, total) ==
    IF total = 0 THEN FZero
    ELSE Times(Quotient(completed, total), 100)

\* the number with bits `bits`, most significant first, after remainder r,
\* divided by k: the quotient bits, one per bit given, and then the remainder
RECURSIVE LongDiv(_, _, _)
LongDiv(bits, k, r) ==
    IF bits = <<>> THEN <<r>>
    ELSE LET v == 2 * r + bits[1]
         IN <<v \div k>> \o LongDiv(Tail(bits), k, v % k)

\* bits without its leading zeros (there is a one)
Stripped(bits) ==
    LET first == CHOOSE i \in 1..Len(bits) :
                     bits[i] = 1 /\ \A j \in 1..(i - 1) : bits[j] = 0
    IN SubSeq(bits, first, Len(bits))

\* x / float64(k) for a small integer k in 1..127 (its conversion is exact):
\* the quotient, rounded.  Nine bits below the significand leave a guard bit
\* after the at most seven leading zeros of the quotient.
DividedBy(x, k) ==
    IF x = FZero THEN FZero
    ELSE LET d == LongDiv(x.m \o Zeros(9), k, 0)
             q == SubSeq(d, 1, Len(d) - 1)
             kept == Stripped(q)
         IN Round(x.e - (Len(q) - Len(kept)), kept, d[Len(d)] # 0)

RECURSIVE BitsValue(_)
BitsValue(bits) ==
    IF bits = <<>> THEN 0
    ELSE 2 * BitsValue(SubSeq(bits, 1, Len(bits) - 1)) + bits[Len(bits)]

\* int(x) for 0 <= x < 2^31: the fraction dropped
Trunc(x) ==
    IF x = FZero \/ x.e < 0 THEN 0 ELSE BitsValue(SubSeq(x.m, 1, x.e + 1))

\* bits - 1, for bits that are not all zeros: the last one becomes a zero
\* and the zeros after it ones
Dec(bits) ==
    LET last == CHOOSE i \in 1..Len(bits) :
                    bits[i] = 1 /\ \A j \in (i + 1)..Len(bits) : bits[j] = 0
    IN [i \in 1..Len(bits) |-> IF i < last THEN bits[i] ELSE IF i = last THEN 0 ELSE 1]

\* the float64 just below a positive one
Before(x) ==
    IF x.m = <<1>> \o Zeros(Precision - 1)
    THEN [e |-> x.e - 1, m |-> [i \in 1..Precision |-> 1]]
    ELSE [e |-> x.e, m |-> Dec(x.m)]

\* the bar: "[" , barLength blocks, "]"; "filled" stands for the full block
\* and "empty" for the light shade
Bar(filledBlocks) ==
    <<"[">> \o [i \in 1..barLength |-> IF i - 1 < filledBlocks THEN "filled" ELSE "empty"]
            \o <<"]">>

\* createProgressBar rounding half up where the code truncates
createProgressBar_rounded(percentage) ==
    Bar(Trunc(Times(DividedBy(percentage, 100), barLength) ) +
        (IF Trunc(Times(DividedBy(percentage, 100), 2 * barLength)) % 2 = 1 THEN 1 ELSE 0))

\* createProgressBar(percentage)
createProgressBar(percentage) ==
    Bar(Trunc(Times(DividedBy(percentage, 100), barLength)))

-----------------------------------------------------------------------------
(* /stats and /progress, multi variant: the percentages they report for a  *)
(* user, after check-ins and ticket commands of that user.                 *)

\* lines 559-566 and 618-625: totalTickets, completedTickets and the
\* percentage of one project
M_projectStats(activity) ==
    LET totalTickets == Cardinality(Keys(activity.Tickets))
        completedTickets == Cardinality({id \in Keys(activity.Tickets) :
                                           activity.Tickets[id].Status = "done"})
    IN [completed |-> completedTickets, total |-> totalTickets,
        percentage |-> getPercentage(completedTickets, totalTickets)]

\* handleStatsCommand: no reply but the no-projects one for a user without
\* records, else the figures of every project
M_handleStatsCommand(db, userID) ==
    IF ~Has(db.UserActivities, userID) \/ Keys(db.UserActivities[userID]) = {}
    THEN [ok |-> FALSE, stats |-> EmptyMap]
    ELSE [ok |-> TRUE,
          stats |-> [c \in Keys(db.UserActivities[userID]) |->
                        M_projectStats(db.UserActivities[userID][c])]]

\* lines 616-647: the figures of one project and its progress bar
M_projectProgress(activity) ==
    LET figures == M_projectStats(activity)
    IN [completed |-> figures.completed, total |-> figures.total,
        percentage |-> figures.percentage,
        bar |-> createProgressBar(figures.percentage)]

\* handleProgressCommand: as above, the projects without tickets skipped
M_handleProgressCommand(db, userID) ==
    IF ~Has(db.UserActivities, userID) \/ Keys(db.UserActivities[userID]) = {}
    THEN [ok |-> FALSE, stats |-> EmptyMap]
    ELSE LET shown == {c \in Keys(db.UserActivities[userID]) :
                          Keys(db.UserActivities[userID][c].Tickets) # {}}
         IN [ok |-> TRUE,
             stats |-> [c \in shown |-> M_projectProgress(db.UserActivities[userID][c])]]

Replied(op, userID, r) ==
    [op |-> op, user |-> userID, channel |-> "", id |-> "", ok |-> r.ok,
     write |-> "none", stats |-> r.stats]

P_CheckIn ==
    /\ nOps < MaxOpsP
    /\ M_recordCheckIn("u1", "c1", M_projectOf(config, "c1"), "ok")
    /\ UNCHANGED concVars

P_Create ==
    /\ nOps < MaxOpsP
    /\ M_createTicket("u1", "c1", "T", "D", "ok")
    /\ UNCHANGED concVars

P_Complete ==
    /\ nOps < MaxOpsP
    /\ \E n \in 1..MaxOpsP : M_completeTicket("u1", "c1", Itoa(n), "ok")
    /\ UNCHANGED concVars

P_Stats ==
    /\ variant = "multi"
    /\ nOps < MaxOpsP
    /\ ret' = Replied("handleStatsCommand", "u1", M_handleStatsCommand(database, "u1"))
    /\ nOps' = nOps + 1
    /\ UNCHANGED <<variant, config, database, file, clock, taken, created, writeFails>>
    /\ UNCHANGED <<pollVars, shutdown, concVars>>

P_Progress ==
    /\ variant = "multi"
    /\ nOps < MaxOpsP
    /\ ret' = Replied("handleProgressCommand", "u1",
                      M_handleProgressCommand(database, "u1"))
    /\ nOps' = nOps + 1
    /\ UNCHANGED <<variant, config, database, file, clock, taken, created, writeFails>>
    /\ UNCHANGED <<pollVars, shutdown, concVars>>

InitStats ==
    /\ clock = 0
    /\ Started("multi", M_Config([c1 |-> "P1"], "r1", NineOClock, 24))

NextStats == P_CheckIn \/ P_Create \/ P_Complete \/ P_Stats \/ P_Progress

SpecStats == InitStats /\ [][NextStats]_vars

-----------------------------------------------------------------------------
(* createProgressBar on its own and in /progress.                          *)

\* the percentages the bar is drawn for on its own: the whole ones, and the
\* float64 just below each multiple of ten
Percentages ==
    {FromInt(n) : n \in 0..100} \cup {Before(FromInt(10 * k)) : k \in 1..barLength}

\* createProgressBar applied to each of them
Drawn == {[percentage |-> p, bar |-> createProgressBar(p)] : p \in Percentages}

B_Create ==
    /\ nOps < MaxOpsB
    /\ M_createTicket("u1", "c1", "T", "D", "ok")
    /\ UNCHANGED concVars

B_Complete ==
    /\ nOps < MaxOpsB
    /\ \E n \in 1..MaxOpsB : M_completeTicket("u1", "c1", Itoa(n), "ok")
    /\ UNCHANGED concVars

B_Progress ==
    /\ variant = "multi"
    /\ ret' = Replied("handleProgressCommand", "u1",
                      M_handleProgressCommand(database, "u1"))
    /\ UNCHANGED <<variant, config, database, file, clock, nOps, taken, created, writeFails>>
    /\ UNCHANGED <<pollVars, shutdown, concVars>>

B_Bar ==
    /\ \E d \in Drawn :
          ret' = [op |-> "createProgressBar", user |-> "", channel |-> "", id |-> "",
                  ok |-> TRUE, write |-> "none", percentage |-> d.percentage,
                  bar |-> d.bar]
    /\ UNCHANGED <<variant, config, database, file, clock, nOps, taken, created, writeFails>>
    /\ UNCHANGED <<pollVars, shutdown, concVars>>

NextBar == B_Create \/ B_Complete \/ B_Progress \/ B_Bar

SpecBar == InitStats /\ [][NextBar]_vars

-----------------------------------------------------------------------------
(* The /track command next to message events, multi variant.  Message      *)
(* handlers run in goroutines of their own: an event is received, then     *)
(* messageCreate runs.  config.TrackedChannels is guarded by no lock.      *)

\* the process dies: an unrecovered panic or a fatal error of the runtime
crash == shutdown' = [shutdown EXCEPT !.pc = "crashed"]

\* the goroutines inside messageCreate, about to read config.TrackedChannels
Looking == {t \in Goroutines : running[t].call = "messageCreate"}

\* handleTrackCommand(s, i) for channel i.ChannelID and the project name given.
\* Line 500 writes the map: on a nil map that panics; while a message handler
\* reads the map the runtime may stop the process (concurrent map read and
\* map write) or the write may go through.
M_handleTrackCommand(channelID, projectName, race) ==
    /\ variant = "multi"
    /\ race = "fatal" => Looking # {}
    /\ IF config.TrackedChannels = NilMap \/ race = "fatal"
       THEN /\ crash
            /\ UNCHANGED config
            /\ ret' = Returned("handleTrackCommand", "", channelID, "", FALSE, "none")
       ELSE /\ config' = [config EXCEPT !.TrackedChannels = Put(@, channelID, projectName)]
            /\ ret' = Returned("handleTrackCommand", "", channelID, "", TRUE, "none")
            /\ UNCHANGED shutdown
    /\ nOps' = nOps + 1
    /\ UNCHANGED <<variant, database, file, clock, taken, created, writeFails>>
    /\ UNCHANGED <<pollVars, concVars>>

\* part_000, lines 62-67: no config file; or line 69: a config file with a
\* trackedChannels entry, or with none (the map stays nil)
TrackedAtStart == {EmptyMap, [c1 |-> "P1"], NilMap}

InitTrack ==
    /\ clock = 0
    /\ \E tc \in TrackedAtStart : Started("multi", M_Config(tc, "r1", NineOClock, 24))

T_Receive ==
    /\ shutdown.pc = "running"
    /\ nOps + Cardinality(Looking) < MaxOpsT
    /\ \E t \in {"h1", "h2"}, a \in {"u1", BotID}, c \in Channels :
          /\ running[t].pc = "idle"
          /\ running' = [running EXCEPT ![t] =
                 [CallOf("messageCreate", a, c, "") EXCEPT
                    !.local = [author |-> a, username |-> "someone", channel |-> c,
                               content |-> <<"h", "i">>]]]
    /\ UNCHANGED <<trackerVars, pollVars, shutdown, mutex, heap>>

T_Handle ==
    /\ shutdown.pc = "running"
    /\ \E t \in Looking :
          /\ M_messageCreate(running[t].local)
          /\ running' = [running EXCEPT ![t] = NoCall]
    /\ UNCHANGED <<mutex, heap>>

T_Track ==
    /\ shutdown.pc = "running"
    /\ nOps + Cardinality(Looking) < MaxOpsT
    /\ \E c \in Channels, p \in ProjectNames, race \in {"none", "fatal"} :
          M_handleTrackCommand(c, p, race)

NextTrack == T_Receive \/ T_Handle \/ T_Track \/ Advance

SpecTrack == InitTrack /\ [][NextTrack]_vars

-----------------------------------------------------------------------------
(* The reminder routine as a goroutine next to a handler.  A tick is three *)
(* steps of the poller: the call is entered (sendDailyReminders takes the  *)
(* shared lock first, line 422; checkAndSendReminders takes none), the     *)
(* records are read and the reminders sent, the call returns.              *)

\* what the routine calls on a tick: part_000 lines 415-417 call
\* sendDailyReminders inside the window only, main.go line 208 calls
\* checkAndSendReminders on every tick
TickCall(v, cfg, now) ==
    IF v = "single" THEN "checkAndSendReminders"
    ELSE IF M_inWindow(cfg, now) THEN "sendDailyReminders" ELSE "reminderRoutine"

\* the ticker delivers: the routine enters its call
Q_Begin ==
    /\ clock = nextTick
    /\ running["poller"].pc = "idle"
    /\ LET call == TickCall(variant, config, Now)
       IN /\ Acquire("poller", LockOf(variant, call))
          /\ running' = [running EXCEPT !["poller"] = CallOf(call, "", "", "")]
    /\ UNCHANGED <<trackerVars, pollVars, shutdown, heap>>

\* main.go lines 212-251, part_000 lines 425-447: the records are read and
\* the reminders sent
Q_Send ==
    /\ running["poller"].pc = "entered"
    /\ LET messages == IF variant = "single"
                       THEN S_checkAndSendReminders(database, config, Now)
                       ELSE M_tick(database, config, Now)
       IN /\ sent' = messages
          /\ unreminded' = [k \in DOMAIN unreminded |->
                              IF Overdue(variant, database, config, k, Now)
                                 /\ messages[k] = <<>>
                              THEN unreminded[k] + 1 ELSE 0]
    /\ nextTick' = nextTick + 60
    /\ ticks' = ticks + 1
    /\ tickAt' = clock
    /\ running' = [running EXCEPT !["poller"].pc = "done"]
    /\ UNCHANGED <<trackerVars, shutdown, mutex, heap>>

\* the call returns, its deferred RUnlock with it
Q_End == leave("poller")

\* time passes, to the minute before the next tick or to the tick
Q_Pass == ticks < MaxTicksQ /\ Pass

\* a handler goroutine checks in, creates or completes a ticket
Q_Enter == nOps + Cardinality(Mutating) < MaxOpsQ /\ enter("h1")
Q_ReadS == S_read("h1")
Q_WriteS == S_write("h1")
Q_WriteM == M_write("h1")
Q_Read == read("h1")
Q_Leave == leave("h1")

NextPoll ==
    \/ Q_Pass \/ Q_Begin \/ Q_Send \/ Q_End
    \/ Q_Enter \/ Q_ReadS \/ Q_WriteS \/ Q_WriteM \/ Q_Read \/ Q_Leave

SpecPoll == InitRemind /\ [][NextPoll]_vars

-----------------------------------------------------------------------------
(* /track issued again for a channel, next to the messages of the channel *)

Labels == {"P1", "P2"}

InitLabel ==
    /\ clock = 0
    /\ \E tc \in {EmptyMap, [c1 |-> "P1"]} :
          Started("multi", M_Config(tc, "r1", NineOClock, 24))

\* /track <project> in a channel, no message handler running
L_Track ==
    /\ nOps < MaxOpsN
    /\ \E c \in Channels, p \in Labels : M_handleTrackCommand(c, p, "none")

\* a message in a channel: plain text, or !ticket create
L_Message ==
    /\ nOps < MaxOpsN
    /\ \E c \in Channels,
          t \in {<<"h", "i">>, TicketWord \o <<" ">> \o CreateWord \o <<" ", "T">>} :
          M_messageCreate([author |-> "u1", username |-> "someone", channel |-> c,
                           content |-> t])
    /\ UNCHANGED concVars

NextLabel == L_Track \/ L_Message

SpecLabel == InitLabel /\ [][NextLabel]_vars

-----------------------------------------------------------------------------
(* Restart on a file that parses as JSON but was not written by the bot:   *)
(* members are missing or null.  json.Unmarshal leaves the maps of such    *)
(* members nil, and a write to a nil map panics.                           *)

\* obj without its member name
Without(obj, name) == [n \in DOMAIN obj \ {name} |-> obj[n]]

\* the <<user, channel>> pairs with a record in the document
RecordsOf(doc) ==
    {k \in Users \X Channels :
        /\ "userActivities" \in DOMAIN doc /\ doc.userActivities # JNull
        /\ k[1] \in DOMAIN doc.userActivities /\ doc.userActivities[k[1]] # JNull
        /\ k[2] \in DOMAIN doc.userActivities[k[1]]}

\* the documents that differ from doc in one place: no userActivities
\* member, a null one, a null user, a record with tickets null or absent
Nulled(doc) ==
    {Without(doc, "userActivities"), [doc EXCEPT !.userActivities = JNull]}
    \cup {[doc EXCEPT !.userActivities[k[1]] = JNull] : k \in RecordsOf(doc)}
    \cup {[doc EXCEPT !.userActivities[k[1]][k[2]].tickets = JNull] : k \in RecordsOf(doc)}
    \cup {[doc EXCEPT !.userActivities[k[1]][k[2]] = Without(@, "tickets")] :
            k \in RecordsOf(doc)}

\* recordCheckIn, lines 325-327 and 345: is the map written to nil?
M_recordCheckIn_nilMap(db, userID) ==
    \/ db.UserActivities = NilMap
    \/ Has(db.UserActivities, userID) /\ db.UserActivities[userID] = NilMap

\* createTicket, lines 222-224, 229 and 242: is the map written to nil?
M_createTicket_nilMap(db, userID, channelID) ==
    \/ M_recordCheckIn_nilMap(db, userID)
    \/ /\ HasRecord("multi", db, <<userID, channelID>>)
       /\ RecordOf("multi", db, <<userID, channelID>>).Tickets = NilMap

\* panic: assignment to entry in nil map, in a handler goroutine
panicked(op, userID, channelID) ==
    /\ crash
    /\ ret' = Returned(op, userID, channelID, "", FALSE, "none")
    /\ nOps' = nOps + 1
    /\ UNCHANGED <<variant, config, database, file, clock, taken, created, writeFails>>
    /\ UNCHANGED pollVars

\* the file is edited while the process is down
N_Edit ==
    /\ shutdown.pc = "exited"
    /\ file.state = "json"
    /\ file' \in {FileOf(d) : d \in Nulled(file.doc)}
    /\ UNCHANGED <<variant, config, database, clock, ret, nOps, taken, created, writeFails>>
    /\ UNCHANGED <<pollVars, shutdown, concVars>>

N_CheckIn ==
    /\ variant = "multi"
    /\ shutdown.pc = "running"
    /\ nOps < MaxOpsI
    /\ \E u \in Users, c \in Channels, p \in ProjectNames :
          IF M_recordCheckIn_nilMap(database, u)
          THEN panicked("recordCheckIn", u, c)
          ELSE M_recordCheckIn(u, c, p, "ok")
    /\ UNCHANGED concVars

N_Create ==
    /\ variant = "multi"
    /\ shutdown.pc = "running"
    /\ nOps < MaxOpsI
    /\ \E u \in Users, c \in Channels, t \in Titles, d \in Descriptions :
          IF M_createTicket_nilMap(database, u, c)
          THEN panicked("createTicket", u, c)
          ELSE M_createTicket(u, c, t, d, "ok")
    /\ UNCHANGED concVars

InitNil ==
    /\ clock = 0
    /\ Started("multi", M_Config([c1 |-> "P1"], "r1", NineOClock, 24))

NextNil == Stop \/ N_Edit \/ Restart \/ N_CheckIn \/ N_Create

SpecNil == InitNil /\ [][NextNil]_vars

-----------------------------------------------------------------------------
(* C1: in both variants, after any sequence of recordCheckIn calls for one *)
(* record, the record's last-check-in timestamp is the timestamp taken by  *)
(* the most recent of those calls.                                         *)
C1_LastCheckInIsLatest ==
    \A k \in RecordKeys(variant) :
        taken[k] # <<>> =>
            /\ HasRecord(variant, database, k)
            /\ RecordOf(variant, database, k).LastCheckIn.wall = taken[k][Len(taken[k])]

C1_Witness ==
    /\ ret.op = "recordCheckIn"
    /\ \E k \in RecordKeys(variant) :
          /\ Len(taken[k]) >= 2
          /\ taken[k][1] # taken[k][Len(taken[k])]

(* C2: single variant: after N recordCheckIn calls for a user the history  *)
(* holds exactly min(N, 30) timestamps, the most recently recorded ones in *)
(* insertion order; no history ever holds more than 30 entries.            *)
C2_HistoryIsLast30 ==
    variant = "single" =>
        \A u \in Users :
            LET n == Len(taken[u])
                m == Min(n, HistoryCap)
            IN IF n = 0 THEN ~HasRecord("single", database, u)
               ELSE /\ HasRecord("single", database, u)
                    /\ Len(database.UserActivities[u].CheckIns) <= HistoryCap
                    /\ Walls(database.UserActivities[u].CheckIns)
                         = SubSeq(taken[u], n - m + 1, n)

C2_Witness ==
    /\ variant = "single"
    /\ Len(taken["u1"]) > HistoryCap
    /\ taken["u1"][1] # taken["u1"][HistoryCap + 1]
    /\ Len(taken["u2"]) > 0

(* C3: multi variant: for a user/channel pair that starts with no tickets  *)
(* the k-th createTicket call returns the decimal string of k, so no two   *)
(* tickets of a pair share an ID and createTicket never overwrites a       *)
(* ticket.                                                                 *)
C3_Ids ==
    variant = "multi" =>
        /\ \A k \in RecordKeys("multi") :
              LET tickets == TicketsIn(database, k)
              IN /\ Keys(tickets) = {Itoa(i) : i \in 1..created[k]}
                 /\ \A id \in Keys(tickets) : tickets[id].ID = id
        /\ ret.op = "createTicket" => ret.id = Itoa(created[<<ret.user, ret.channel>>])

C3_NoOverwrite ==
    Called("createTicket") =>
        \A k \in RecordKeys("multi") :
            \A id \in Keys(TicketsIn(database, k)) :
                /\ id \in Keys(TicketsIn(database', k))
                /\ TicketsIn(database', k)[id] = TicketsIn(database, k)[id]

C3_SequentialIds == [](C3_Ids) /\ [][C3_NoOverwrite]_vars

C3_Witness ==
    /\ ret.op = "createTicket"
    /\ ret.id = "2"
    /\ TicketsIn(database, <<ret.user, ret.channel>>)["1"].Status = "done"

(* C4: completeTicket for a user without a record, a channel without a     *)
(* record for that user, or a ticket ID the pair does not have returns     *)
(* false and leaves every ticket, every record and the file unchanged.     *)
C4_Step ==
    (Called("completeTicket") /\ ~M_found(database, ret'.user, ret'.channel, ret'.id))
        => (ret'.ok = FALSE /\ database' = database /\ file' = file)

C4_NotFoundChangesNothing == [][C4_Step]_vars

C4_Witness ==
    /\ ret.op = "completeTicket"
    /\ ~ret.ok
    /\ ret.id = "2"
    /\ Keys(TicketsIn(database, <<ret.user, ret.channel>>)) = {"1"}
    /\ file.state = "json"

(* C5: every ticket is created open; the only status change is open to     *)
(* done; a done ticket stays done; no status is ever in_progress; no       *)
(* ticket is ever removed.                                                 *)
C5_Statuses ==
    variant = "multi" =>
        \A k \in RecordKeys("multi") :
            \A id \in Keys(TicketsIn(database, k)) :
                TicketsIn(database, k)[id].Status \in {"open", "done"}

C5_Step ==
    variant = "multi" =>
        \A k \in RecordKeys("multi") :
            LET old == TicketsIn(database, k)
                new == TicketsIn(database', k)
            IN /\ \A id \in Keys(old) :
                    /\ id \in Keys(new)
                    /\ \/ new[id].Status = old[id].Status
                       \/ old[id].Status = "open" /\ new[id].Status = "done"
               /\ \A id \in Keys(new) \ Keys(old) : new[id].Status = "open"

C5_Lifecycle == [](C5_Statuses) /\ [][C5_Step]_vars

C5_Witness ==
    /\ variant = "multi"
    /\ ret.op = "completeTicket" /\ ret.ok
    /\ created[<<ret.user, ret.channel>>] = 1
    /\ nOps = 3
    /\ clock = 1

(* C10: for every database reachable by check-ins and ticket operations,   *)
(* saveDatabase followed by loadDatabase into a fresh empty database gives *)
(* the same user keys, channel keys, check-in timestamps, last-check-in    *)
(* values and ticket fields.                                               *)
S_SameData(a, b) ==
    /\ Keys(a.UserActivities) = Keys(b.UserActivities)
    /\ \A u \in Keys(a.UserActivities) :
          LET x == a.UserActivities[u]
              y == b.UserActivities[u]
          IN /\ x.UserID = y.UserID
             /\ x.Username = y.Username
             /\ x.LastCheckIn.wall = y.LastCheckIn.wall
             /\ Walls(x.CheckIns) = Walls(y.CheckIns)

M_SameTicket(s, t) ==
    /\ s.ID = t.ID /\ s.Title = t.Title /\ s.Description = t.Description
    /\ s.Status = t.Status /\ s.ProjectName = t.ProjectName
    /\ s.CreatedAt.wall = t.CreatedAt.wall
    /\ s.CompletedAt.wall = t.CompletedAt.wall

M_SameData(a, b) ==
    /\ Keys(a.UserActivities) = Keys(b.UserActivities)
    /\ \A u \in Keys(a.UserActivities) :
          /\ Keys(a.UserActivities[u]) = Keys(b.UserActivities[u])
          /\ \A c \in Keys(a.UserActivities[u]) :
                LET x == a.UserActivities[u][c]
                    y == b.UserActivities[u][c]
                IN /\ x.LastCheckIn.wall = y.LastCheckIn.wall
                   /\ Walls(x.CheckIns) = Walls(y.CheckIns)
                   /\ x.ProjectName = y.ProjectName
                   /\ Keys(x.Tickets) = Keys(y.Tickets)
                   /\ \A id \in Keys(x.Tickets) : M_SameTicket(x.Tickets[id], y.Tickets[id])

Reloaded ==
    IF variant = "single"
    THEN S_loadDatabase(FileOf(S_Marshal(database)), S_EmptyDatabase)
    ELSE M_loadDatabase(FileOf(M_Marshal(database)), M_EmptyDatabase)

C10_RoundTrip ==
    IF variant = "single" THEN S_SameData(Reloaded, database)
    ELSE M_SameData(Reloaded, database)

C10_Witness ==
    /\ variant = "multi"
    /\ Reloaded # database
    /\ \E k \in RecordKeys("multi") :
          /\ Len(taken[k]) > 0
          /\ \E id \in Keys(TicketsIn(database, k)) :
                /\ TicketsIn(database, k)[id].Status = "done"
                /\ TicketsIn(database, k)[id].CompletedAt.wall > 0

-----------------------------------------------------------------------------
(* C6: in both variants, with reminder time HH:MM configured, a tick of    *)
(* the reminder routine at any minute from HH:MM through HH:MM+5 inclusive *)
(* sends a reminder for every overdue record, and a tick at any other time *)
(* sends no reminder.  Stated for a reminder minute of at most 54 and, in  *)
(* the multi-channel variant, with a reminder channel configured.          *)
C6_Window(cfg, now) ==
    LET r == S_reminderTime(cfg)
        start == r.hour * 60 + r.minute
    IN r.ok /\ r.minute <= 54 /\ (now.wall % 1440) \in start..(start + 5)

C6_Configured ==
    /\ S_reminderTime(config).ok /\ S_reminderTime(config).minute <= 54
    /\ variant = "multi" => config.ReminderChannelID # ""

C6_Step ==
    (ticks' = ticks + 1 /\ C6_Configured)
    => \A k \in DOMAIN sent :
          (sent'[k] # <<>>)
          <=> (C6_Window(config, Now) /\ Overdue(variant, database, config, k, Now))

C6_ReminderWindow == [][C6_Step]_vars

\* a tick at HH:MM+5 has found a record overdue and sent nothing for it
C6_Witness ==
    /\ ticks > 0 /\ tickAt = clock /\ C6_Configured
    /\ C6_Window(config, Now)
    /\ \E k \in DOMAIN sent :
          /\ Overdue(variant, database, config, k, Now)
          /\ Len(taken[k]) > 0 /\ taken[k][Len(taken[k])] < tickAt
          /\ sent[k] = <<>>

(* C7: on a tick that passes the variant's test of the reminder window,    *)
(* exactly one reminder is sent for each record whose last check-in is     *)
(* more than CheckInFrequency hours old, and none for a record whose last  *)
(* check-in is that old or younger -- in the multi-channel variant,        *)
(* provided a reminder channel is configured; without one, no reminder is  *)
(* sent at all.                                                            *)
C7_InWindow ==
    IF variant = "single" THEN S_inWindow(config, Now) ELSE M_inWindow(config, Now)

C7_Elapsed(k) ==
    LET last == RecordOf(variant, database, k).LastCheckIn.wall
    IN IF last = ZeroWall THEN MaxDuration ELSE clock - last

C7_Counts ==
    \A k \in DOMAIN sent :
        Len(sent'[k]) = IF /\ HasRecord(variant, database, k)
                           /\ C7_Elapsed(k) > config.CheckInFrequency * 60
                        THEN 1 ELSE 0

C7_HasChannel == variant = "multi" => config.ReminderChannelID # ""

C7_Step ==
    (ticks' = ticks + 1 /\ C7_InWindow)
    => IF C7_HasChannel THEN C7_Counts
       ELSE \A k \in DOMAIN sent : sent'[k] = <<>>

C7_OneReminderPerOverdueRecord == [][C7_Step]_vars

\* the same without the proviso: as the claim words it
C7_OriginalStep == (ticks' = ticks + 1 /\ C7_InWindow) => C7_Counts

C7_Original == [][C7_OriginalStep]_vars

\* a tick in the window has just reminded one record and passed over
\* another whose last check-in was exactly CheckInFrequency hours old
C7_Witness ==
    /\ ticks > 0 /\ tickAt = clock /\ C7_InWindow /\ C7_HasChannel
    /\ \E k1, k2 \in DOMAIN sent :
          /\ Len(sent[k1]) = 1
          /\ HasRecord(variant, database, k1) /\ C7_Elapsed(k1) > config.CheckInFrequency * 60
          /\ HasRecord(variant, database, k2)
          /\ C7_Elapsed(k2) = config.CheckInFrequency * 60
          /\ sent[k2] = <<>>

(* C8: a record whose last check-in stays older than the configured       *)
(* frequency while the routine keeps ticking hourly is reminded: it is     *)
(* never found overdue by 24 ticks in a row, one in every hour of the day, *)
(* with no reminder sent for it.                                           *)
C8_OverdueIsReminded == \A k \in DOMAIN unreminded : unreminded[k] < 24

\* a record was found overdue by a tick that sent nothing for it
C8_Witness == \E k \in DOMAIN unreminded : unreminded[k] > 0 /\ Len(taken[k]) > 0

(* C9: whenever a recordCheckIn, a createTicket or a successful            *)
(* completeTicket has returned, its file write having succeeded, and no    *)
(* other mutation is in progress, the persisted file holds the whole       *)
(* in-memory database.                                                     *)
C9_Returned ==
    /\ ret.write = "ok"
    /\ \/ ret.op \in {"recordCheckIn", "createTicket"}
       \/ ret.op = "completeTicket" /\ ret.ok

C9_FileIsDatabase == C9_Returned => file = FileOf(Marshal(variant, database))

\* main has written its file after a mutation that returned
C9_Witness == C9_Returned /\ shutdown.pc = "exited"

(* C11: when loadDatabase finds no file the database stays the empty       *)
(* database; when the file is there but its content fails to decode the    *)
(* database is left exactly as it was before the load (at startup: empty); *)
(* in neither case does the process stop.                                  *)
C11_Unparseable(v, f) ==
    \/ f.state = "corrupt"
    \/ f.state = "json" /\ (IF v = "single" THEN S_UnmarshalError(f.doc)
                            ELSE M_UnmarshalError(f.doc))

C11_Step ==
    (shutdown.pc = "exited" /\ shutdown'.pc = "running"
       /\ (file.state = "absent" \/ C11_Unparseable(variant, file)))
    => (database' = EmptyDatabase(variant) /\ shutdown'.pc = "running")

C11_LoadErrorsLeaveDatabase == [][C11_Step]_vars

\* the process has started again on a file it could not decode, and runs
C11_Witness ==
    /\ shutdown.pc = "running"
    /\ C11_Unparseable(variant, file)
    /\ file.state = "json"
    /\ database # EmptyDatabase(variant)
    /\ nOps = 1

(* C12: every call that writes the database runs holding the exclusive     *)
(* lock and every call that reads it (listTickets, stats, progress, the    *)
(* reminder scan, every saveDatabase, the one at shutdown included) runs   *)
(* holding the exclusive or the shared lock; hence no two goroutines are   *)
(* inside calls on the database at once when one of them writes it.        *)
C12_Inside(t) == running[t].pc # "idle"

C12_Discipline ==
    \A t \in Goroutines :
        C12_Inside(t) =>
            IF running[t].call \in Mutators THEN mutex.w = t
            ELSE mutex.w = t \/ t \in mutex.r

C12_NoOverlap ==
    \A t1, t2 \in Goroutines :
        (t1 # t2 /\ C12_Inside(t1) /\ C12_Inside(t2))
        => (running[t1].call \notin Mutators /\ running[t2].call \notin Mutators)

C12_LockDiscipline == C12_Discipline /\ C12_NoOverlap

\* main is inside its saveDatabase while a handler holds the lock and writes
C12_Witness ==
    /\ variant = "multi"
    /\ running["main"].call = "saveDatabase" /\ running["main"].pc = "entered"
    /\ \E t \in {"h1", "h2"} :
          /\ running[t].call = "recordCheckIn" /\ running[t].pc = "done"
          /\ mutex.w = t

(* C13: the exit signal causes one final saveDatabase, and however that    *)
(* save interleaves with a recordCheckIn, createTicket or completeTicket   *)
(* and its own save, the file left at exit holds every check-in and every  *)
(* ticket change of the operations that had returned before the exit.      *)
C13_FileAtExit == loadDatabase(variant, file, EmptyDatabase(variant))

C13_ExitFileHasAll ==
    shutdown.pc = "exited" =>
        /\ file.state = "json"
        /\ IF variant = "single" THEN S_SameData(C13_FileAtExit, database)
           ELSE M_SameData(C13_FileAtExit, database)

\* the process has exited having written a snapshot older than an operation
\* that returned
C13_Witness ==
    /\ shutdown.pc = "exited"
    /\ ret.op = "recordCheckIn"
    /\ shutdown.data # Marshal(variant, database)
    /\ file = FileOf(shutdown.data)

(* C14: a message is recorded as a check-in exactly when it is posted in a *)
(* monitored channel by an author other than the bot -- and, in the        *)
(* single-channel variant, under the username kevin.you: such a message    *)
(* adds one check-in for its author and touches no other record, and any   *)
(* other message leaves the database unchanged.                            *)
C14_Monitored(ch) ==
    IF variant = "single" THEN ch = config.StudyChannelID
    ELSE Has(config.TrackedChannels, ch)

C14_Key(m) == IF variant = "single" THEN m.author ELSE <<m.author, m.channel>>

C14_History(db, k) ==
    IF HasRecord(variant, db, k) THEN RecordOf(variant, db, k).CheckIns ELSE <<>>

C14_Recorded(m) ==
    LET k == C14_Key(m)
        old == C14_History(database, k)
        new == C14_History(database', k)
    IN /\ HasRecord(variant, database', k)
       /\ Len(new) = IF variant = "single" THEN Min(Len(old) + 1, HistoryCap)
                     ELSE Len(old) + 1
       /\ new[Len(new)] = Now
       /\ RecordOf(variant, database', k).LastCheckIn = Now
       /\ \A k2 \in RecordKeys(variant) \ {k} :
             /\ HasRecord(variant, database', k2) = HasRecord(variant, database, k2)
             /\ HasRecord(variant, database, k2)
                  => RecordOf(variant, database', k2) = RecordOf(variant, database, k2)

C14_IsMessage == nOps' = nOps + 1 /\ ret'.op = "messageCreate"

C14_Step ==
    C14_IsMessage =>
        LET m == ret'.message
        IN IF /\ m.author # BotID /\ C14_Monitored(m.channel)
              /\ variant = "single" => m.username = "kevin.you"
           THEN C14_Recorded(m)
           ELSE database' = database

C14_OriginalStep ==
    C14_IsMessage =>
        LET m == ret'.message
        IN IF m.author # BotID /\ C14_Monitored(m.channel)
           THEN C14_Recorded(m)
           ELSE database' = database

C16_Arguments(content) ==
    LET rest == TrimSpace(SubSeq(content, Len(TicketWord) + 1, Len(content)))
        words == SplitN(rest, " ", 2)
    IN [action |-> words[1],
        text |-> IF Len(words) > 1 THEN TrimSpace(words[2]) ELSE <<>>]

C16_Malformed(content) ==
    LET a == C16_Arguments(content)
    IN \/ a.action = <<>>
       \/ a.action = CreateWord /\ TrimSpace(SplitN(a.text, "|", 2)[1]) = <<>>
       \/ a.action = DoneWord /\ a.text = <<>>
       \/ a.action \notin {CreateWord, DoneWord, ListWord}

C16_UsageReplies == {"Usage", "Usage: create", "Usage: done", "Unknown ticket command"}

C16_Step ==
    (/\ nOps' = nOps + 1 /\ ret'.op = "messageCreate" /\ variant = "multi"
     /\ M_qualifies(config, ret'.message)
     /\ HasPrefix(ret'.message.content, TicketWord)
     /\ C16_Malformed(ret'.message.content))
    => /\ Len(ret'.replies) = 1
       /\ ret'.replies[1] \in C16_UsageReplies
       /\ \A k \in RecordKeys("multi") : TicketsIn(database', k) = TicketsIn(database, k)

C16_MalformedCommandsOnlyReply == [][C16_Step]_vars

\* a create command with nothing but a space after the action word has made
\* a ticket with an empty title
C16_Witness ==
    /\ variant = "multi"
    /\ ret.op = "messageCreate"
    /\ ret.message.content = TicketWord \o <<" ">> \o CreateWord \o <<" ">>
    /\ ret.replies = <<"Created">>
    /\ TicketsIn(database, <<ret.user, ret.channel>>)[ret.id].Title = ""

(* C15: multi variant: once /track with project name P has been handled    *)
(* for channel C, the process runs on with C tracked as P, C stays         *)
(* tracked, and every later message by a non-bot author in C is recorded   *)
(* as a check-in for that author in C -- whatever configuration the        *)
(* process started with and however the /track handler interleaves with    *)
(* message handlers.                                                       *)
C15_TrackStep ==
    (nOps' = nOps + 1 /\ ret'.op = "handleTrackCommand")
    => /\ shutdown'.pc = "running"
       /\ Has(config'.TrackedChannels, ret'.channel)
       /\ config'.TrackedChannels[ret'.channel] \in ProjectNames

C15_StaysTracked ==
    \A c \in Channels :
        Has(config.TrackedChannels, c) => Has(config'.TrackedChannels, c)

C15_MessageStep ==
    (/\ nOps' = nOps + 1 /\ ret'.op = "messageCreate"
     /\ ret'.message.author # BotID
     /\ Has(config.TrackedChannels, ret'.message.channel))
    => C14_Recorded(ret'.message)

C15_Step == C15_TrackStep /\ C15_StaysTracked /\ C15_MessageStep

C15_TrackedChannelIsRecorded == [][C15_Step]_vars

\* the process has died in handleTrackCommand: it started from a config file
\* without a trackedChannels entry
C15_Witness ==
    /\ shutdown.pc = "crashed"
    /\ ret.op = "handleTrackCommand"
    /\ config.TrackedChannels = NilMap

(* C17: the model only grows: in every step the user keys, the channel     *)
(* keys of each user and the ticket IDs of each user and channel keep      *)
(* every element, and a check-in history keeps every entry, but for the    *)
(* entries beyond the most recent 30 in the single variant.                *)
C17_KeysKept ==
    /\ Keys(database.UserActivities) \subseteq Keys(database'.UserActivities)
    /\ variant = "multi" =>
          \A u \in Keys(database.UserActivities) :
              Keys(database.UserActivities[u]) \subseteq Keys(database'.UserActivities[u])

C17_Last(h, n) == IF Len(h) > n THEN SubSeq(h, Len(h) - n + 1, Len(h)) ELSE h

\* the history after the step is the one before, or that with one entry
\* appended and, in the single variant, cut to the last HistoryCap
C17_HistoryKept(old, new) ==
    \/ new = old
    \/ /\ new # <<>>
       /\ LET appended == Append(old, new[Len(new)])
          IN new = IF variant = "single" THEN C17_Last(appended, HistoryCap)
                   ELSE appended

C17_TicketIDs(a) == Keys(a.Tickets)

C17_RecordsKept ==
    \A k \in RecordKeys(variant) :
        HasRecord(variant, database, k) =>
            /\ HasRecord(variant, database', k)
            /\ C17_HistoryKept(RecordOf(variant, database, k).CheckIns,
                               RecordOf(variant, database', k).CheckIns)
            /\ variant = "multi" =>
                  C17_TicketIDs(RecordOf(variant, database, k))
                      \subseteq C17_TicketIDs(RecordOf(variant, database', k))

C17_ModelOnlyGrows == [][C17_KeysKept /\ C17_RecordsKept]_vars

\* two calls of recordCheckIn have overlapped and both have returned, and the
\* history holds one entry
C17_Witness ==
    /\ variant = "single"
    /\ Len(taken["u1"]) = 2
    /\ Has(database.UserActivities, "u1")
    /\ Len(database.UserActivities["u1"].CheckIns) = 1

(* C18: in every reachable state the check-in history of every record is   *)
(* in non-decreasing order of time, calls for the same user overlapping    *)
(* included (the clock never goes back).                                   *)
C18_NonDecreasing(h) == \A i \in 1..(Len(h) - 1) : h[i].wall <= h[i + 1].wall

C18_HistoriesOrdered ==
    \A k \in RecordKeys(variant) :
        HasRecord(variant, database, k) =>
            C18_NonDecreasing(RecordOf(variant, database, k).CheckIns)

\* two calls of recordCheckIn for the same user are under way, one of them
\* holding the record it read before the other's append
C18_Witness ==
    /\ variant = "single"
    /\ running["h1"].pc = "read"
    /\ running["h2"].pc = "appended"
    /\ running["h1"].user = running["h2"].user

(* C19: in every reachable state a ticket's completion time is the zero    *)
(* time exactly when its status is open.                                   *)
C19_TicketsOf(u) ==
    UNION {{database.UserActivities[u][c].Tickets[i] :
              i \in Keys(database.UserActivities[u][c].Tickets)} :
           c \in Keys(database.UserActivities[u])}

C19_Tickets ==
    IF variant = "multi"
    THEN UNION {C19_TicketsOf(u) : u \in Keys(database.UserActivities)}
    ELSE {}

C19_CompletionTimeMatchesStatus ==
    \A t \in C19_Tickets : (t.CompletedAt = ZeroTime) <=> (t.Status = "open")

\* a ticket that is done and a ticket that is open, side by side
C19_Witness ==
    /\ \E t \in C19_Tickets : t.Status = "done" /\ t.CompletedAt.wall = clock
    /\ \E t \in C19_Tickets : t.Status = "open"

(* C20: getPercentage(completed, total) is 0 whenever total is 0;          *)
(* otherwise it is 100 * completed / total up to the rounding of float64   *)
(* (the float64 nearest to that, or a neighbour of it), and it is 75 for   *)
(* (3, 4); for the counts /stats and /progress pass it lies between 0 and  *)
(* 100.                                                                    *)
C20_Counts == 0..MaxCount

\* the float64 just above and just below a positive one
C20_Above(x) ==
    IF \A i \in 1..Precision : x.m[i] = 1
    THEN [e |-> x.e + 1, m |-> <<1>> \o Zeros(Precision - 1)]
    ELSE [e |-> x.e, m |-> Inc(x.m)]

\* bits - 1, for bits that are not all zeros
RECURSIVE C20_Dec(_)
C20_Dec(bits) ==
    LET n == Len(bits)
    IN IF bits[n] = 1 THEN [bits EXCEPT ![n] = 0]
       ELSE C20_Dec(SubSeq(bits, 1, n - 1)) \o <<1>>

C20_Below(x) ==
    IF x.m = <<1>> \o Zeros(Precision - 1)
    THEN [e |-> x.e - 1, m |-> [i \in 1..Precision |-> 1]]
    ELSE [e |-> x.e, m |-> C20_Dec(x.m)]

\* the float64 nearest to 100 * completed / total
C20_Nearest(completed, total) == Quotient(100 * completed, total)

C20_Near(p, completed, total) ==
    LET n == C20_Nearest(completed, total)
    IN IF n = FZero THEN p = FZero
       ELSE p \in {n, C20_Above(n), C20_Below(n)}

C20_Value(p, completed, total) ==
    /\ total = 0 => p = FZero
    /\ total # 0 => C20_Near(p, completed, total)
    /\ (completed = 3 /\ total = 4) => p = FromInt(75)

C20_Function ==
    \A completed \in C20_Counts, total \in C20_Counts :
        C20_Value(getPercentage(completed, total), completed, total)

C20_Reported == ret.op \in {"handleStatsCommand", "handleProgressCommand"}

C20_PercentageIsTheShare ==
    /\ C20_Function
    /\ C20_Reported =>
          \A c \in Keys(ret.stats) :
              LET r == ret.stats[c]
              IN /\ C20_Value(r.percentage, r.completed, r.total)
                 /\ FLeq(FZero, r.percentage)
                 /\ FLeq(r.percentage, FromInt(100))

\* the statement with no rounding allowed for: the result is the float64
\* nearest to 100 * completed / total
C20_OriginalValue(p, completed, total) ==
    /\ total = 0 => p = FZero
    /\ total # 0 => p = C20_Nearest(completed, total)

C20_Original ==
    C20_Reported =>
        \A c \in Keys(ret.stats) :
            LET r == ret.stats[c]
            IN /\ C20_OriginalValue(r.percentage, r.completed, r.total)
               /\ FLeq(FZero, r.percentage)
               /\ FLeq(r.percentage, FromInt(100))

\* /stats has reported three tickets of four done as 75
C20_Witness ==
    /\ ret.op = "handleStatsCommand"
    /\ Has(ret.stats, "c1")
    /\ ret.stats["c1"].completed = 3 /\ ret.stats["c1"].total = 4
    /\ ret.stats["c1"].percentage = FromInt(75)

(* C21: createProgressBar renders exactly ten segments between its         *)
(* brackets, the filled ones first; for every whole percentage from 0 to   *)
(* 100 and for every percentage /progress passes, floor(percentage / 10)   *)
(* of them are filled (none at 0, five at 55, ten at 100); the bar of a    *)
(* project is completely filled only when every ticket of it is done.      *)
C21_Filled(bar) == Cardinality({i \in 1..Len(bar) : bar[i] = "filled"})

C21_Shape(bar) ==
    /\ Len(bar) = barLength + 2
    /\ bar[1] = "[" /\ bar[Len(bar)] = "]"
    /\ \A i \in 2..(barLength + 1) :
          bar[i] = IF i - 1 <= C21_Filled(bar) THEN "filled" ELSE "empty"

\* n = floor(percentage / 10), the division exact
C21_IsFloorOfTenth(n, percentage) ==
    /\ FLeq(FromInt(10 * n), percentage)
    /\ ~FLeq(FromInt(10 * (n + 1)), percentage)

C21_Whole == {FromInt(n) : n \in 0..100}

C21_OfBar ==
    ret.op = "createProgressBar" =>
        /\ C21_Shape(ret.bar)
        /\ ret.percentage \in C21_Whole =>
              C21_IsFloorOfTenth(C21_Filled(ret.bar), ret.percentage)
        /\ ret.percentage = FZero => C21_Filled(ret.bar) = 0
        /\ ret.percentage = FromInt(55) => C21_Filled(ret.bar) = 5
        /\ ret.percentage = FromInt(100) => C21_Filled(ret.bar) = barLength

C21_OfProgress ==
    ret.op = "handleProgressCommand" =>
        \A c \in Keys(ret.stats) :
            LET r == ret.stats[c]
            IN /\ C21_Shape(r.bar)
               /\ C21_IsFloorOfTenth(C21_Filled(r.bar), r.percentage)
               /\ C21_Filled(r.bar) = (barLength * r.completed) \div r.total
               /\ C21_Filled(r.bar) = barLength => r.completed = r.total

C21_BarShowsTheTenths == C21_OfBar /\ C21_OfProgress

\* the statement for every float64 from 0 to 100 the bar is drawn for
C21_Original ==
    /\ ret.op = "createProgressBar" =>
          /\ C21_Shape(ret.bar)
          /\ C21_IsFloorOfTenth(C21_Filled(ret.bar), ret.percentage)
    /\ C21_OfProgress

\* the bar for 55 has been drawn with five segments filled
C21_Witness ==
    /\ ret.op = "createProgressBar"
    /\ ret.percentage = FromInt(55)
    /\ C21_Filled(ret.bar) = 5

(* C22: no check-in is lost under concurrency: once the calls of           *)
(* recordCheckIn handled concurrently for a user have all returned, the    *)
(* history holds one entry for each of them (the single variant's cap of   *)
(* 30 is not reached here) and the file last written holds them all.       *)
C22_AllReturned == InRecordCheckIn = {}

C22_NoCheckInLost ==
    (C22_AllReturned /\ taken["u1"] # <<>>) =>
        /\ Has(database.UserActivities, "u1")
        /\ Len(database.UserActivities["u1"].CheckIns) = Len(taken["u1"])
        /\ file = FileOf(S_Marshal(database))

\* two calls have overlapped (the second read the record before the first
\* stored it), both have returned, and no call is under way
C22_Witness ==
    /\ C22_AllReturned
    /\ Len(taken["u1"]) = 2
    /\ nOps = 2
    /\ Len(database.UserActivities["u1"].CheckIns) < 2

(* C23: a ticket becomes done once: a completeTicket that succeeds for a   *)
(* ticket that is done already leaves that ticket as it was, its status    *)
(* and its completion time included.                                       *)
C23_Ticket(db, userID, channelID, ticketID) ==
    db.UserActivities[userID][channelID].Tickets[ticketID]

C23_Step ==
    (/\ nOps' = nOps + 1
     /\ ret'.op = "completeTicket" /\ ret'.ok
     /\ M_found(database, ret'.user, ret'.channel, ret'.id)
     /\ C23_Ticket(database, ret'.user, ret'.channel, ret'.id).Status = "done")
    => C23_Ticket(database', ret'.user, ret'.channel, ret'.id)
          = C23_Ticket(database, ret'.user, ret'.channel, ret'.id)

C23_DoneOnce == [][C23_Step]_vars

(* C24: the reminder poller is read-only: no step of a poll tick, whether  *)
(* the tick sends reminders or not, changes the in-memory database or the  *)
(* persisted file, and the poller never holds the exclusive lock.          *)
C24_PollerStep == running'["poller"] # running["poller"]

C24_Step ==
    C24_PollerStep =>
        /\ database' = database
        /\ file' = file
        /\ mutex'.w = mutex.w

C24_PollerReadsOnly == [](mutex.w # "poller") /\ [][C24_Step]_vars

\* the second tick has sent a reminder for a record that is in the database
\* and in the file, the poller still holding the shared lock; the first tick
\* (outside the window) sent none
C24_Witness ==
    /\ variant = "multi"
    /\ ticks = 2
    /\ running["poller"].pc = "done"
    /\ running["poller"].call = "sendDailyReminders"
    /\ "poller" \in mutex.r
    /\ sent[<<"u1", "c1">>] # <<>>
    /\ HasRecord("multi", database, <<"u1", "c1">>)
    /\ file = FileOf(M_Marshal(database))

(* C25: in every state reached through recordCheckIn, createTicket and     *)
(* completeTicket, each activity record's LastCheckIn is the last element  *)
(* of its CheckIns, and it is the zero time exactly when CheckIns is empty. *)
C25_Consistent(activity) ==
    /\ activity.CheckIns # <<>> =>
          activity.LastCheckIn = activity.CheckIns[Len(activity.CheckIns)]
    /\ (activity.LastCheckIn = ZeroTime) <=> (activity.CheckIns = <<>>)

C25_LastCheckInMatchesHistory ==
    \A k \in RecordKeys(variant) :
        HasRecord(variant, database, k) => C25_Consistent(RecordOf(variant, database, k))

\* createTicket has made the record of a user who never checked in
C25_Witness ==
    /\ variant = "multi"
    /\ ret.op = "createTicket"
    /\ taken[<<"u1", "c1">>] = <<>>
    /\ HasRecord("multi", database, <<"u1", "c1">>)
    /\ RecordOf("multi", database, <<"u1", "c1">>).CheckIns = <<>>

(* C26: in the multi variant the project label stored in an activity       *)
(* record of a channel, and the label of every ticket created in the       *)
(* channel after its latest /track, equal the label configured for the     *)
(* channel now, also after /track was issued again with another name.      *)
C26_RecordLabels ==
    \A k \in Users \X Channels :
        HasRecord("multi", database, k) =>
            RecordOf("multi", database, k).ProjectName = M_projectOf(config, k[2])

\* the step creates a ticket: it carries the label configured at that time,
\* which stays the configured one until the next /track of the channel
C26_TicketStep ==
    (nOps' = nOps + 1 /\ ret'.op = "messageCreate" /\ ret'.command = "createTicket")
    => RecordOf("multi", database', <<ret'.user, ret'.channel>>).Tickets[ret'.id].ProjectName
          = M_projectOf(config', ret'.channel)

C26_LabelsFollowTrack == []C26_RecordLabels /\ [][C26_TicketStep]_vars

\* /track named the channel P1, then P2; the ticket created after that
\* carries P1, as the record does
C26_Witness ==
    /\ ret.op = "messageCreate" /\ ret.command = "createTicket" /\ ret.channel = "c1"
    /\ M_projectOf(config, "c1") = "P2"
    /\ RecordOf("multi", database, <<"u1", "c1">>).ProjectName = "P1"
    /\ RecordOf("multi", database, <<"u1", "c1">>).Tickets[ret.id].ProjectName = "P1"

(* C27: in the multi variant, after loadDatabase has returned for a file   *)
(* that parses as JSON (no userActivities member, a null one, a record     *)
(* with tickets absent or null), the user map and every record's ticket    *)
(* map are initialised, and later recordCheckIn and createTicket calls     *)
(* complete normally.                                                      *)
C27_Initialised(db) ==
    /\ db.UserActivities # NilMap
    /\ \A u \in Keys(db.UserActivities) :
          /\ db.UserActivities[u] # NilMap
          /\ \A c \in Keys(db.UserActivities[u]) :
                db.UserActivities[u][c].Tickets # NilMap

C27_LoadedMapsInitialised ==
    /\ shutdown.pc = "running" => C27_Initialised(database)
    /\ shutdown.pc # "crashed"

\* the file had a record with no ticket map; it was loaded, and createTicket
\* for that record has panicked
C27_Witness ==
    /\ shutdown.pc = "crashed"
    /\ ret.op = "createTicket"
    /\ file.state = "json"
    /\ database.UserActivities # NilMap
    /\ HasRecord("multi", database, <<ret.user, ret.channel>>)
    /\ RecordOf("multi", database, <<ret.user, ret.channel>>).Tickets = NilMap

=============================================================================
